---- MODULE Spec2Model ----
(***************************************************************************)
(* BlackKittenProxy: the connection core (src/src/connection.py) with the  *)
(* collaborators it calls (stats.py, logger.py, rules.py, blacklist.py).   *)
(*                                                                         *)
(* Bytes are naturals 0..255, byte strings are sequences of bytes and      *)
(* text strings are sequences of one-character strings.  Python offsets    *)
(* are 0-based; the helpers below keep the 0-based offsets of the source.  *)
(***************************************************************************)
EXTENDS Integers, Sequences, FiniteSets, TLC

\* ---------------------------------------------------------------- bounds
\* longest byte string enumerated exhaustively as fragmenter input
MaxShortLen == 3
\* number of random draws enumerated (the draws are reused cyclically)
MaxDraws == 2

\* ------------------------------------------------------ program constants
ChunkSize == 32
HdrLen == 5

Min(a, b) == IF a < b THEN a ELSE b
Max(a, b) == IF a > b THEN a ELSE b

\* the absent value (Python None)
None == <<>>

\* s[a:b] for 0 <= a, 0 <= b (Python slicing clamps to the length)
PySlice(s, a, b) ==
  LET lo == Min(a, Len(s))
      hi == Min(b, Len(s))
  IN IF hi <= lo THEN <<>> ELSE SubSeq(s, lo + 1, hi)

\* s[a:]
PyFrom(s, a) == PySlice(s, a, Len(s))

\* int.from_bytes(s, "big")
RECURSIVE FromBytes(_)
FromBytes(s) ==
  IF s = <<>> THEN 0
  ELSE 256 * FromBytes(SubSeq(s, 1, Len(s) - 1)) + s[Len(s)]

\* n.to_bytes(2, "little")
ToBytes2Little(n) == <<n % 256, (n \div 256) % 256>>

\* n.to_bytes(2, "big")
ToBytes2(n) == <<(n \div 256) % 256, n % 256>>

\* b"".join(parts)
RECURSIVE Join(_)
Join(parts) ==
  IF parts = <<>> THEN <<>> ELSE Head(parts) \o Join(Tail(parts))

\* data.find(b"\x00\x00", from): first offset >= from of a zero pair, or -1
RECURSIVE Find00(_, _)
Find00(data, from) ==
  IF from + 2 > Len(data) THEN -1
  ELSE IF data[from + 1] = 0 /\ data[from + 2] = 0 THEN from
  ELSE Find00(data, from + 1)

\* data.find(b"\x00"): first offset of a zero byte, or -1
RECURSIVE Find0(_, _)
Find0(data, from) ==
  IF from + 1 > Len(data) THEN -1
  ELSE IF data[from + 1] = 0 THEN from
  ELSE Find0(data, from + 1)

\* the while loop of _extract_sni_position, entered with candidate pos
RECURSIVE SniScan(_, _)
SniScan(data, pos) ==
  IF pos = -1 \/ pos + 9 > Len(data) THEN None
  ELSE LET ext_len == FromBytes(PySlice(data, pos + 2, pos + 4))
           list_len == FromBytes(PySlice(data, pos + 4, pos + 6))
           name_len == FromBytes(PySlice(data, pos + 7, pos + 9))
       IN IF ext_len - list_len = 2 /\ list_len - name_len = 3
          THEN <<pos + 9, pos + 9 + name_len>>
          ELSE SniScan(data, Find00(data, pos + 1))

extract_sni_position(data) == SniScan(data, Find00(data, 0))

\* hdr + len(payload).to_bytes(2, "big") + payload
Hdr == <<22, 3, 4>>
Rec(payload) == Hdr \o ToBytes2(Len(payload)) \o payload

\* SniParts with the shorter half of the SNI first
SniPartsFloorFirst(data, sni_pos) ==
  LET pre == PySlice(data, 0, sni_pos[1])
      sni == PySlice(data, sni_pos[1], sni_pos[2])
      post == PyFrom(data, sni_pos[2])
      mid == Len(sni) \div 2
  IN << Rec(pre), Rec(PySlice(sni, 0, mid)), Rec(PyFrom(sni, mid)), Rec(post) >>

\* SniParts with the second half of the SNI starting one byte late
SniPartsLate(data, sni_pos) ==
  LET pre == PySlice(data, 0, sni_pos[1])
      sni == PySlice(data, sni_pos[1], sni_pos[2])
      post == PyFrom(data, sni_pos[2])
      mid == (Len(sni) + 1) \div 2
  IN << Rec(pre), Rec(PySlice(sni, 0, mid)), Rec(PyFrom(sni, mid + 1)), Rec(post) >>

\* the four records of the sni method for a located SNI range
SniParts(data, sni_pos) ==
  LET pre == PySlice(data, 0, sni_pos[1])
      sni == PySlice(data, sni_pos[1], sni_pos[2])
      post == PyFrom(data, sni_pos[2])
      mid == (Len(sni) + 1) \div 2
  IN << Rec(pre), Rec(PySlice(sni, 0, mid)), Rec(PyFrom(sni, mid)), Rec(post) >>

\* a split that wraps all of data in one record
SplitPartsWhole(data, idx) ==
  IF idx >= Len(data) THEN <<>> ELSE <<Rec(PyFrom(data, idx))>>

\* the split loop: records of chunk_size bytes starting at offset idx
RECURSIVE SplitParts(_, _)
SplitParts(data, idx) ==
  IF idx >= Len(data) THEN <<>>
  ELSE LET n == Min(ChunkSize, Len(data) - idx)
       IN <<Rec(PySlice(data, idx, idx + n))>> \o SplitParts(data, idx + n)

\* randrange(1, len(data) + 1) for the i-th draw; draws is the random source
RandRange(draws, i, remaining) ==
  ((draws[((i - 1) % Len(draws)) + 1] - 1) % remaining) + 1

\* the while-data loop of the random method
RECURSIVE RandomLoop(_, _, _)
RandomLoop(data, draws, i) ==
  IF data = <<>> THEN <<>>
  ELSE LET n == RandRange(draws, i, Len(data))
       IN <<Rec(PySlice(data, 0, n))>> \o RandomLoop(PyFrom(data, n), draws, i + 1)

\* the random method without the first record up to the zero byte
RandomPartsNoHost(data, draws) == RandomLoop(data, draws, 1)

\* the random method: optional first record up to the first zero byte
RandomParts(data, draws) ==
  LET host_end == Find0(data, 0)
  IN IF host_end # -1
     THEN <<Rec(PySlice(data, 0, host_end + 1))>>
            \o RandomLoop(PyFrom(data, host_end + 1), draws, 1)
     ELSE RandomLoop(data, draws, 1)

\* the upgrade to sni only from the third failure on
UpgradeAfterThree(method, failures) ==
  IF failures > 2 /\ method = "random" THEN "sni" ELSE method

\* lines 239-242: after two failures the random method gives way to sni
UpgradeMethod(method, failures) ==
  IF failures >= 2 /\ method = "random" THEN "sni" ELSE method

\* lines 236-276: the parts list and the final value of the local `method`
\* for the method chosen before the upgrade
Fragments(method0, failures, data, draws) ==
  LET m1 == UpgradeMethod(method0, failures)
      sni_pos == IF m1 = "sni" THEN extract_sni_position(data) ELSE None
      m2 == IF m1 = "sni" /\ sni_pos = None THEN "split" ELSE m1
      p1 == IF m1 = "sni" /\ sni_pos # None THEN SniParts(data, sni_pos) ELSE <<>>
      p2 == IF m2 \in {"split", "split-jitter"} THEN p1 \o SplitParts(data, 0) ELSE p1
      p3 == IF m2 \notin {"sni", "split", "split-jitter"}
            THEN p2 \o RandomParts(data, draws) ELSE p2
  IN [parts |-> p3, method |-> m2, selected |-> m1,
      rest |-> IF m2 \notin {"sni", "split", "split-jitter"} THEN <<>> ELSE data]

\* a record minus its 5-byte forged header
Payload(part) == PyFrom(part, HdrLen)

RECURSIVE Payloads(_)
Payloads(parts) ==
  IF parts = <<>> THEN <<>> ELSE Payload(Head(parts)) \o Payloads(Tail(parts))


\* ------------------------------------------------------------ text strings
StartsWith(s, p) == Len(p) <= Len(s) /\ SubSeq(s, 1, Len(p)) = p
EndsWith(s, p) == Len(p) <= Len(s) /\ SubSeq(s, Len(s) - Len(p) + 1, Len(s)) = p

\* sub in s
Contains(s, sub) ==
  \E i \in 0..(Len(s) - Len(sub)) : SubSeq(s, i + 1, i + Len(sub)) = sub

\* str.lower() on one character
LowerChar(ch) ==
  CASE ch = "A" -> "a" [] ch = "B" -> "b" [] ch = "T" -> "t" [] ch = "W" -> "w"
    [] OTHER -> ch

Lower(s) == [i \in 1..Len(s) |-> LowerChar(s[i])]

\* str.lower() on a method name
LowerMethod(m) ==
  CASE m = "SNI" -> "sni" [] m = "RANDOM" -> "random" [] m = "SPLIT" -> "split"
    [] OTHER -> m

\* s.replace(old, ""): non-overlapping occurrences, left to right
RECURSIVE Remove(_, _)
Remove(s, old) ==
  IF s = <<>> THEN <<>>
  ELSE IF StartsWith(s, old) THEN Remove(PyFrom(s, Len(old)), old)
  ELSE <<Head(s)>> \o Remove(Tail(s), old)

Www == <<"w", "w", "w", ".">>

\* ------------------------------------------------------------- rules.py
RuleMatch(pattern, domain) ==
  IF pattern = <<>> THEN FALSE
  ELSE IF StartsWith(pattern, <<"*", ".">>) THEN EndsWith(domain, PyFrom(pattern, 1))
  ELSE domain = pattern \/ EndsWith(domain, <<".">> \o pattern)

\* the translation of the matching rule
RuleResult(rule) ==
  LET method == IF rule.fragment_method # None
                THEN <<LowerMethod(rule.fragment_method[1])>> ELSE None
  IN CASE rule.action = "bypass" -> [decision |-> <<FALSE>>, method |-> method]
       [] rule.action = "force" -> [decision |-> <<TRUE>>, method |-> method]
       [] OTHER -> [decision |-> None, method |-> method]

\* decide going on to later rules when the matching rule has action auto
RECURSIVE DecideSkippingAuto(_, _)
DecideSkippingAuto(rules, d) ==
  IF rules = <<>> THEN [decision |-> None, method |-> None]
  ELSE IF /\ RuleMatch(Lower(Head(rules).pattern), d)
          /\ Head(rules).action \in {"bypass", "force"}
       THEN RuleResult(Head(rules))
  ELSE DecideSkippingAuto(Tail(rules), d)

\* RuleEngine.decide: the first rule, in list order, whose pattern matches
RECURSIVE DecideFrom(_, _)
DecideFrom(rules, d) ==
  IF rules = <<>> THEN [decision |-> None, method |-> None]
  ELSE IF RuleMatch(Lower(Head(rules).pattern), d) THEN RuleResult(Head(rules))
  ELSE DecideFrom(Tail(rules), d)

RuleDecide(rules, domain) == DecideFrom(rules, Lower(domain))

\* ---------------------------------------------------------- blacklist.py
\* ".".join(parts[i:]) for i in 1..len(parts)-1: the text after each dot
ParentSuffixes(d) == { PyFrom(d, i) : i \in { j \in 1..Len(d) : d[j] = "." } }

FileIsBlocked(blocked_set, domain_matching, domain) ==
  LET d == Remove(domain, Www)
  IN \/ domain_matching = "loose" /\ \E bd \in blocked_set : Contains(d, bd)
     \/ d \in blocked_set
     \/ \E p \in ParentSuffixes(d) : p \in blocked_set


\* ------------------------------------------------------- connection core
\* concurrent connection tasks
NConn == 2
\* client sockets accepted over a run of several connections
MaxAccepts == 3
\* bytes each endpoint sends during RELAY
MaxRelay == 1

EstablishedLen == 39
ErrorResponseLen == 38
BufSize == 65536
TlsHeadMax == 5
TlsDataMax == 2048

Conns == 1..NConn

DomA == <<"a", ".", "t">>
DomB == <<"b", ".", "t">>
Domains == {DomA, DomB}

\* b"HTTP/1.1 200 Connection Established\r\n\r\n" and the 500 response, each
\* written as one marker element (no byte has a value above 255)
Established == <<1200>>
ErrorResponse == <<1500>>

\* the first client chunk: a stand-in for the request text, and the result
\* _parse_http_request gives for it (BAD: the parse raises ValueError)
Requests ==
  [kind : {"CONNECT", "GET"}, host : Domains] \cup {[kind |-> "BAD", host |-> DomA]}
HttpData(req) ==
  CASE req.kind = "CONNECT" -> <<67>> [] req.kind = "GET" -> <<71>> [] OTHER -> <<63>>

\* ClientHello bodies a client sends after the 200 response
SniHello == <<1, 0, 0, 0, 7, 0, 5, 0, 0, 2, 9, 8, 3>>
Hellos == {SniHello}
\* the TLS record header in front of a ClientHello body
TlsHeader(hello) == <<22, 3, 1>> \o ToBytes2(Len(hello))

\* the k-th byte an endpoint sends during RELAY carries its position
RelayBytes(base, n) == [i \in 1..n |-> base + i]

\* what a CONNECT client sends after the 200 response
ClientStream(req, hello) ==
  IF req.kind = "CONNECT" THEN TlsHeader(hello) \o hello ELSE <<>>

\* sizes a read(n) may return when avail bytes are on their way: all that
\* fits, or a shorter TCP segment
SegCuts == {3}
ReadSizes(n, avail, cuts) ==
  { k \in 1..Min(n, avail) : k = Min(n, avail) \/ k \in cuts }

\* random sources: a draw of 0 takes all that remains, 1 one byte, 2 two
DrawSeqs == [1..MaxDraws -> {0, 1, 2}]

Methods == {"random", "sni", "split", "split-jitter"}

BypassA == [pattern |-> DomA, action |-> "bypass", fragment_method |-> None]
ForceB == [pattern |-> DomB, action |-> "force", fragment_method |-> <<"SNI">>]

\* blacklist manager and rules: every manager without rules, and the file
\* manager (a.t listed) with a bypass rule for a.t and a force rule for b.t
Policies ==
  [bl_mode : {"none", "file", "auto"}, rules : {<<>>}]
    \cup {[bl_mode |-> "file", rules |-> <<BypassA, ForceB>>]}

Configs ==
  { [log_error_file |-> e, fragment_method |-> m, bl_mode |-> p.bl_mode,
     domain_matching |-> "strict", blocked |-> {DomA}, rules |-> p.rules] :
      e \in BOOLEAN, m \in Methods, p \in Policies }

VARIABLES
  cfg,                \* ProxyConfig plus the loaded blacklist and rules
  accepted,           \* client sockets accepted so far (the last one's key)
  shutdown,           \* the event loop is being torn down
  stats,              \* Statistics counters
  domain_failures,    \* ConnectionHandler.domain_failures
  active_connections, \* ConnectionHandler.active_connections
  bl_blocked, bl_white, bl_file,  \* AutoBlacklistManager sets and file appends
  pc,                 \* position of each handle_connection task
  cancelled,          \* a cancellation is pending for the task
  loc,                \* locals of each handle_connection task
  pipes,              \* the two _pipe child tasks of each connection
  io,                 \* bytes read from and written to the two endpoints
  tally,              \* what each connection added to the Statistics counters
  logs,               \* records each connection handed to the logger
  frag_in, frag_out,  \* input and result of a stand-alone fragmenter run
  rule_in, rule_out,  \* input and result of a stand-alone RuleEngine.decide
  bl_in, bl_out,      \* blacklist file, query and result of a stand-alone is_blocked
  dns_now,            \* time.monotonic()
  dns_cache,          \* DNSCache._cache: the entries in insertion order
  dns_calls,          \* the DNSCache.resolve calls in progress or returned
  gui_dir,            \* control UI: whether the unlocked/ directory exists
  gui_files,          \* control UI: the names of the list files in unlocked/
  gui_selected,       \* control UI: selected_lists as stored in gui_config.json
  gui_resp,           \* control UI: the response to the client's last request
  gui_asked,          \* control UI: what the client last asked for each list
  boot_env,           \* start-up: whether the blacklist file exists, the port is free
  boot_pc,            \* start-up: how far app.run() has come
  exit_status,        \* start-up: the status the process ended with, if it did
  sf_pc,              \* write_stats: asleep, or inside "with open(...)"
  sf_buf,             \* write_stats: the text handed to f.write, not flushed yet
  sf_file,            \* the stats file: absent, or its content
  sf_read,            \* what the control UI last read from the stats file
  sd_env,             \* the options of ProxyServer.run: quiet, stats_file given
  sd_pc,              \* position of app.run around server.run and shutdown
  periodic            \* the tasks created by ProxyServer.run

connVars == <<cfg, accepted, shutdown, stats, domain_failures, active_connections,
              bl_blocked, bl_white, bl_file, pc, cancelled, loc, pipes, io,
              tally, logs>>
fragVars == <<frag_in, frag_out>>
ruleVars == <<rule_in, rule_out>>
oracleVars == <<bl_in, bl_out>>
dnsVars == <<dns_now, dns_cache, dns_calls>>
\* everything outside the connection core
guiVars == <<gui_dir, gui_files, gui_selected, gui_resp, gui_asked>>
bootVars == <<boot_env, boot_pc, exit_status>>
statsFileVars == <<sf_pc, sf_buf, sf_file, sf_read>>
shutVars == <<sd_env, sd_pc, periodic>>
extVars == <<guiVars, bootVars, statsFileVars, shutVars>>
sideVars == <<fragVars, ruleVars, oracleVars, dnsVars, extVars>>
vars == <<connVars, sideVars>>

ZeroStats ==
  [total |-> 0, allowed |-> 0, blocked |-> 0, errors |-> 0,
   traffic_in |-> 0, traffic_out |-> 0]

\* the sum of two counter records
AddStats(s, d) ==
  [total |-> s.total + d.total, allowed |-> s.allowed + d.allowed,
   blocked |-> s.blocked + d.blocked, errors |-> s.errors + d.errors,
   traffic_in |-> s.traffic_in + d.traffic_in,
   traffic_out |-> s.traffic_out + d.traffic_out]

Delta(total, allowed, blocked, errors, tin, tout) ==
  [total |-> total, allowed |-> allowed, blocked |-> blocked, errors |-> errors,
   traffic_in |-> tin, traffic_out |-> tout]

\* update_traffic(incoming, outgoing)
Traffic(tin, tout) == Delta(0, 0, 0, 0, tin, tout)

\* ErrorCounterHandler.emit: with an error-log file every error record calls
\* the counter callback, which is Statistics.increment_error_connections
LogErrorDelta == Delta(0, 0, 0, IF cfg.log_error_file THEN 1 ELSE 0, 0, 0)

\* dictionaries: get with default, item assignment, pop
EmptyMap == [x \in {} |-> 0]
Get(m, k, default) == IF k \in DOMAIN m THEN m[k] ELSE default
Put(m, k, v) == [x \in DOMAIN m \cup {k} |-> IF x = k THEN v ELSE m[x]]
Pop(m, k) == [x \in DOMAIN m \ {k} |-> m[x]]

InitLoc ==
  [peer |-> 0, key |-> 0, req |-> [kind |-> "NONE", host |-> DomA], http_data |-> <<>>,
   head |-> <<>>, data |-> <<>>, method0 |-> "", selected |-> "", method |-> "",
   failures |-> 0, parts |-> <<>>, idx |-> 0, total |-> 0, decision |-> "none",
   probed |-> FALSE, remote |-> FALSE, outcome |-> "none"]

InitPipe == [pc |-> "none", local_vol |-> 0]
InitPipes == [out |-> InitPipe, in |-> InitPipe]

InitIo ==
  [cstream |-> <<>>, cnext |-> <<>>, ostream |-> <<>>, client_tx |-> <<>>, origin_tx |-> <<>>,
   client_rx |-> <<>>, origin_rx |-> <<>>, ceof |-> FALSE, oeof |-> FALSE,
   cw_closed |-> FALSE, rw_closed |-> FALSE]

InitLogs == [access |-> <<>>, errors |-> <<>>]

NoFrag == [method |-> "", failures |-> 0, head |-> <<>>, data |-> <<>>, draws |-> <<1>>]

\* a RuleEngine.decide run not yet given
NoRule == [rules |-> <<>>, domain |-> <<>>]
\* an is_blocked run not yet given
NoQuery == [lines |-> <<>>, domain_matching |-> "strict", domain |-> <<>>]

\* tasks calling DNSCache.resolve
NCallers == 2
DnsCallers == 1..NCallers
\* a caller that has not called resolve yet
IdleCall ==
  [pc |-> "idle", made |-> 0, key |-> <<>>, now |-> 0, result |-> <<>>, cached |-> FALSE]

FragIdle == frag_in = NoFrag /\ frag_out = None
RuleIdle == rule_in = NoRule /\ rule_out = None
OracleIdle == bl_in = NoQuery /\ bl_out = None
\* DNSCache.__init__
DnsIdle ==
  /\ dns_now = 0
  /\ dns_cache = <<>>
  /\ dns_calls = [p \in DnsCallers |-> IdleCall]

\* the list names the control UI is asked about, in the order of sorted()
ListNames == <<"ads", "cdn", "vpn">>
ListNameSet == {ListNames[i] : i \in 1..Len(ListNames)}
\* a request that was not answered yet
NoResp == [kind |-> "none", code |-> 0, lists |-> <<>>]
NotAsked == [n \in ListNameSet |-> "none"]

\* gui_app.py at start: DEFAULT_CONFIG, no gui_config.json
GuiIdle ==
  /\ gui_dir = FALSE
  /\ gui_files = {}
  /\ gui_selected = {}
  /\ gui_resp = NoResp
  /\ gui_asked = NotAsked

\* what the process finds when it starts
GoodEnv == [blacklist_exists |-> TRUE, port_free |-> TRUE]
\* the proxy was started and asyncio.start_server returned
BootIdle ==
  /\ boot_env = GoodEnv
  /\ boot_pc = "serving"
  /\ exit_status = None

\* no stats file was written or read yet
StatsFileIdle ==
  /\ sf_pc = "sleep"
  /\ sf_buf = <<>>
  /\ sf_file = None
  /\ sf_read = None

\* server.py 149-153: the tasks run() creates before serve_forever
TaskNames == {"display_stats", "write_stats", "cleanup_tasks"}
CreatedTasks(env) ==
  [t \in TaskNames |->
     IF \/ t = "display_stats" /\ ~env.quiet
        \/ t = "write_stats" /\ env.stats_file
        \/ t = "cleanup_tasks"
     THEN "scheduled" ELSE "none"]

\* a quiet proxy with a stats file that is serving
ShutIdle ==
  /\ sd_env = [quiet |-> TRUE, stats_file |-> TRUE]
  /\ sd_pc = "serving"
  /\ periodic = CreatedTasks(sd_env)

ExtIdle == GuiIdle /\ BootIdle /\ StatsFileIdle /\ ShutIdle

ConnInit ==
  /\ accepted = 0
  /\ shutdown = FALSE
  /\ stats = ZeroStats
  /\ domain_failures = EmptyMap
  /\ active_connections = EmptyMap
  /\ bl_blocked = {} /\ bl_white = {} /\ bl_file = <<>>
  /\ pc = [c \in Conns |-> "idle"]
  /\ cancelled = [c \in Conns |-> FALSE]
  /\ loc = [c \in Conns |-> InitLoc]
  /\ pipes = [c \in Conns |-> InitPipes]
  /\ io = [c \in Conns |-> InitIo]
  /\ tally = [c \in Conns |-> ZeroStats]
  /\ logs = [c \in Conns |-> InitLogs]

Init ==
  /\ cfg \in Configs
  /\ ConnInit
  /\ FragIdle /\ RuleIdle /\ OracleIdle /\ DnsIdle /\ ExtIdle


\* ------------------------------------------------------------- decisions
\* blacklist_manager.is_blocked for the configured manager
IsBlocked(domain) ==
  CASE cfg.bl_mode = "none" -> TRUE
    [] cfg.bl_mode = "file" -> FileIsBlocked(cfg.blocked, cfg.domain_matching, domain)
    [] OTHER -> domain \in bl_blocked

\* the oracle's "blocked" standing against a bypass rule
ShouldFragmentOracleFirst(domain) ==
  LET rd == RuleDecide(cfg.rules, domain)
  IN IsBlocked(domain) \/ (rd.decision # None /\ rd.decision[1])

\* lines 215-221
ShouldFragment(domain) ==
  LET rd == RuleDecide(cfg.rules, domain)
  IN IF rd.decision # None THEN rd.decision[1] ELSE IsBlocked(domain)

\* rule_method or self.config.fragment_method
ChosenMethod(domain) ==
  LET rd == RuleDecide(cfg.rules, domain)
  IN IF rd.method # None THEN rd.method[1] ELSE cfg.fragment_method

\* the decrement without the floor at zero
PlainDec(n) == n - 1

\* max(0, n - 1)
SatDec(n) == Max(0, n - 1)

Unknown == <<"u", "n", "k">>

\* self.statistics calls of connection c
Count(c, d) ==
  /\ stats' = AddStats(stats, d)
  /\ tally' = [tally EXCEPT ![c] = AddStats(@, d)]

NoCount == UNCHANGED <<stats, tally>>

blVars == <<bl_blocked, bl_white, bl_file>>

\* a task that may take its next step
Running(c, at) == pc[c] = at /\ ~cancelled[c]

\* ----------------------------------------------------- handle_connection
\* asyncio.start_server accepts a client and starts handle_connection, which
\* awaits the first read (the lowest free slot holds the new task)
Accept(c, limit) ==
  /\ boot_pc = "serving" /\ sd_pc = "serving"
  /\ ~shutdown
  /\ accepted < limit
  /\ pc[c] \in {"idle", "done"}
  /\ \A b \in Conns : b < c => pc[b] \notin {"idle", "done"}
  /\ accepted' = accepted + 1
  /\ pc' = [pc EXCEPT ![c] = "read_first"]
  /\ loc' = [loc EXCEPT ![c] = [InitLoc EXCEPT !.peer = accepted + 1]]
  /\ pipes' = [pipes EXCEPT ![c] = InitPipes]
  /\ io' = [io EXCEPT ![c] = InitIo]
  /\ tally' = [tally EXCEPT ![c] = ZeroStats]
  /\ logs' = [logs EXCEPT ![c] = InitLogs]
  /\ UNCHANGED <<cfg, shutdown, stats, domain_failures, active_connections,
                 blVars, cancelled, sideVars>>

\* a first read that, finding nothing, counts the connection before closing
ReadFirstNothingCounted(c) ==
  /\ Running(c, "read_first")
  /\ pc' = [pc EXCEPT ![c] = "done"]
  /\ loc' = [loc EXCEPT ![c].outcome = "early"]
  /\ io' = [io EXCEPT ![c].cw_closed = TRUE]
  /\ Count(c, Delta(1, 0, 0, 1, 0, 0))
  /\ UNCHANGED <<cfg, accepted, shutdown, domain_failures,
                 active_connections, blVars, cancelled, pipes, logs, sideVars>>

\* lines 54-67: the first read times out or returns EOF
ReadFirstNothing(c) ==
  /\ Running(c, "read_first")
  /\ pc' = [pc EXCEPT ![c] = "done"]
  /\ loc' = [loc EXCEPT ![c].outcome = "early"]
  /\ io' = [io EXCEPT ![c].cw_closed = TRUE]
  /\ UNCHANGED <<cfg, accepted, shutdown, stats, domain_failures,
                 active_connections, blVars, cancelled, pipes, tally, logs, sideVars>>

\* _handle_connection_error up to its first await: the 500 response is
\* written and the drain is awaited
EnterError(c, ioc) ==
  /\ pc' = [pc EXCEPT ![c] = "err_drain"]
  /\ io' = [io EXCEPT ![c] = [ioc EXCEPT !.client_rx = @ \o ErrorResponse]]

\* the locals of _handle_initial_tls_data are gone once it has returned or
\* raised
DropTlsLocals(lc) ==
  [lc EXCEPT !.head = <<>>, !.data = <<>>, !.method0 = "", !.selected = "",
             !.method = "", !.failures = 0, !.parts = <<>>, !.idx = 0, !.total = 0]

\* the first read raises (connection reset): caught at line 87
ReadFirstError(c) ==
  /\ Running(c, "read_first")
  /\ EnterError(c, io[c])
  /\ UNCHANGED <<cfg, accepted, shutdown, stats, domain_failures,
                 active_connections, blVars, cancelled, loc, pipes, tally, logs,
                 sideVars>>

\* lines 76-83 and 124-133 (CONNECT) or 146-149 (other methods): register
\* the ConnectionInfo, count the first chunk, start opening the origin
Register(c, lc) ==
  LET connect == lc.req.kind = "CONNECT"
      info == [dst_domain |-> lc.req.host, method |-> lc.req.kind,
               traffic_in |-> IF connect THEN EstablishedLen ELSE 0,
               traffic_out |-> Len(lc.http_data)]
  IN /\ active_connections' = Put(active_connections, lc.key, info)
     /\ Count(c, Traffic(IF connect THEN EstablishedLen ELSE 0, Len(lc.http_data)))
     /\ pc' = [pc EXCEPT ![c] = "connecting"]
     /\ loc' = [loc EXCEPT ![c] = lc]

\* lines 55-85: the first chunk arrives and is parsed
ReadFirst(c, req, hello, nrelay) ==
  /\ Running(c, "read_first")
  /\   LET lc == [loc[c] EXCEPT !.req = req, !.http_data = HttpData(req),
                                !.key = IF req.kind = "BAD" THEN 0 ELSE loc[c].peer]
           ioc == [io[c] EXCEPT !.cstream = ClientStream(req, hello),
                                !.cnext = RelayBytes(100, nrelay),
                                !.ostream = RelayBytes(200, nrelay),
                                !.client_tx = HttpData(req)]
       IN IF req.kind = "BAD"
          THEN /\ EnterError(c, ioc)
               /\ loc' = [loc EXCEPT ![c] = lc]
               /\ UNCHANGED <<stats, tally, active_connections>>
          ELSE IF /\ req.kind = "CONNECT" /\ cfg.bl_mode = "auto"
                  /\ req.host \notin bl_blocked \cup bl_white
          THEN /\ pc' = [pc EXCEPT ![c] = "probe"]
               /\ loc' = [loc EXCEPT ![c] = lc]
               /\ io' = [io EXCEPT ![c] = ioc]
               /\ UNCHANGED <<stats, tally, active_connections>>
          ELSE /\ Register(c, lc)
               /\ io' = [io EXCEPT ![c] = ioc]
  /\ UNCHANGED <<cfg, accepted, shutdown, domain_failures, blVars, cancelled,
                 pipes, logs, sideVars>>

ProbeResults == {"ok", "handshake_timeout", "url_error", "error"}

\* AutoBlacklistManager.check_domain after the probe returned, then lines 76-83
ProbeDone(c) ==
  /\ Running(c, "probe")
  /\ \E r \in ProbeResults :
       LET dec == loc[c].req.host
       IN /\ bl_white' = IF r \in {"ok", "error"} THEN bl_white \cup {dec} ELSE bl_white
          /\ bl_blocked' = IF r = "handshake_timeout" THEN bl_blocked \cup {dec}
                           ELSE bl_blocked
          /\ bl_file' = IF r = "handshake_timeout" THEN Append(bl_file, dec) ELSE bl_file
  /\ Register(c, [loc[c] EXCEPT !.probed = TRUE])
  /\ UNCHANGED <<cfg, accepted, shutdown, domain_failures, cancelled, pipes, io,
                 logs, sideVars>>

\* a refused origin connection answered with 200 before the 500
ConnectFailEstablished(c) ==
  /\ Running(c, "connecting")
  /\ EnterError(c, [io[c] EXCEPT !.client_rx = @ \o Established])
  /\ UNCHANGED <<cfg, accepted, shutdown, stats, domain_failures,
                 active_connections, blVars, cancelled, loc, pipes, tally, logs,
                 sideVars>>

\* a refused origin connection whose exception leaves handle_connection
ConnectFailRaises(c) ==
  /\ Running(c, "connecting")
  /\ pc' = [pc EXCEPT ![c] = "done"]
  /\ loc' = [loc EXCEPT ![c].outcome = "raised"]
  /\ UNCHANGED <<cfg, accepted, shutdown, stats, domain_failures,
                 active_connections, blVars, cancelled, pipes, io, tally, logs,
                 sideVars>>

\* resolve or connect fails or times out (lines 134-136, 150-152)
ConnectFail(c) ==
  /\ Running(c, "connecting")
  /\ EnterError(c, io[c])
  /\ UNCHANGED <<cfg, accepted, shutdown, stats, domain_failures,
                 active_connections, blVars, cancelled, loc, pipes, tally, logs,
                 sideVars>>

\* the origin connection is open: CONNECT writes the 200 response (line 138),
\* other methods write the first chunk to the origin (line 153)
ConnectOK(c) ==
  /\ Running(c, "connecting")
  /\ loc' = [loc EXCEPT ![c].remote = TRUE]
  /\ IF loc[c].req.kind = "CONNECT"
     THEN /\ pc' = [pc EXCEPT ![c] = "est_drain"]
          /\ io' = [io EXCEPT ![c].client_rx = @ \o Established]
     ELSE /\ pc' = [pc EXCEPT ![c] = "http_drain"]
          /\ io' = [io EXCEPT ![c].origin_rx = @ \o loc[c].http_data]
  /\ UNCHANGED <<cfg, accepted, shutdown, stats, domain_failures,
                 active_connections, blVars, cancelled, pipes, tally, logs, sideVars>>

\* line 139: the drain of the 200 response returns or raises
EstDrain(c) ==
  /\ Running(c, "est_drain")
  /\ \E ok \in BOOLEAN :
       IF ok THEN pc' = [pc EXCEPT ![c] = "tls_head"] /\ io' = io
       ELSE EnterError(c, io[c])
  /\ UNCHANGED <<cfg, accepted, shutdown, stats, domain_failures,
                 active_connections, blVars, cancelled, loc, pipes, tally, logs,
                 sideVars>>

\* _run_pipes lines 302-304: both pipes are started and awaited
StartPipes(c, ioc) ==
  /\ pc' = [pc EXCEPT ![c] = "relay"]
  /\ pipes' = [pipes EXCEPT ![c] = [out |-> [pc |-> "read", local_vol |-> 0],
                                    in |-> [pc |-> "read", local_vol |-> 0]]]
  /\ io' = [io EXCEPT ![c] = ioc]

\* lines 153-159: the drain of the first chunk returns or raises
HttpDrain(c) ==
  /\ Running(c, "http_drain")
  /\ \E ok \in BOOLEAN :
       IF ok THEN /\ Count(c, Delta(1, 1, 0, 0, 0, 0))
                  /\ StartPipes(c, io[c])
             ELSE /\ EnterError(c, io[c])
                  /\ UNCHANGED <<stats, tally, pipes>>
  /\ UNCHANGED <<cfg, accepted, shutdown, domain_failures, active_connections,
                 blVars, cancelled, loc, logs, sideVars>>


\* self.logger.log_error(domain ...) by connection c
LogError(c, domain) == logs' = [logs EXCEPT ![c].errors = Append(@, domain)]

\* reader.read(n) on the client side: the first k bytes on their way, or EOF
\* (k = 0), after which every read returns EOF
ClientRead(ioc, k) ==
  IF k = 0 THEN [ioc EXCEPT !.cstream = <<>>, !.cnext = <<>>, !.ceof = TRUE]
  ELSE [ioc EXCEPT !.cstream = PyFrom(@, k),
                   !.client_tx = @ \o PySlice(ioc.cstream, 0, k)]

\* line 206: head = read(5)
TlsHeadRead(c, k) ==
  /\ Running(c, "tls_head")
  /\ k \in 0..Min(TlsHeadMax, Len(io[c].cstream))
  /\   /\ loc' = [loc EXCEPT ![c].head = PySlice(io[c].cstream, 0, k)]
       /\ io' = [io EXCEPT ![c] = ClientRead(@, k)]
  /\ pc' = [pc EXCEPT ![c] = "tls_data"]
  /\ UNCHANGED <<cfg, accepted, shutdown, stats, domain_failures,
                 active_connections, blVars, cancelled, pipes, tally, logs, sideVars>>

\* lines 208-213: one of the two initial TLS reads times out or raises; the
\* error is logged and the relay starts
TlsReadFail(c) ==
  /\ pc[c] \in {"tls_head", "tls_data"} /\ ~cancelled[c]
  /\ LogError(c, loc[c].req.host)
  /\ Count(c, LogErrorDelta)
  /\ StartPipes(c, io[c])
  /\ loc' = [loc EXCEPT ![c] = DropTlsLocals(@)]
  /\ UNCHANGED <<cfg, accepted, shutdown, domain_failures, active_connections,
                 blVars, cancelled, sideVars>>

\* lines 207-297 up to the first drain: data = read(2048), the decision, the
\* counters, the fragments and the first write to the origin
TlsDataRead(c, k, draws) ==
  /\ Running(c, "tls_data")
  /\ k \in 0..Min(TlsDataMax, Len(io[c].cstream))
  /\   LET head == loc[c].head
           data == PySlice(io[c].cstream, 0, k)
           ioc == ClientRead(io[c], k)
           dom == active_connections[loc[c].key].dst_domain
           should == ShouldFragment(dom)
           failures == Get(domain_failures, dom, 0)
           fr == Fragments(ChosenMethod(dom), failures, data, draws)
           jitter == should /\ fr.parts # <<>> /\ fr.method = "split-jitter"
           first == IF ~should THEN head \o data
                    ELSE IF fr.parts = <<>> THEN head \o fr.rest
                    ELSE IF jitter THEN fr.parts[1]
                    ELSE Join(fr.parts)
       IN /\ Count(c, IF should THEN Delta(1, 0, 1, 0, 0, 0) ELSE Delta(1, 1, 0, 0, 0, 0))
          /\ io' = [io EXCEPT ![c] = [ioc EXCEPT !.origin_rx = @ \o first]]
          /\ pc' = [pc EXCEPT ![c] = IF jitter THEN "jit_drain" ELSE "tls_drain"]
          /\ loc' = [loc EXCEPT ![c] =
                      [@ EXCEPT !.data = data,
                                !.decision = IF should THEN "blocked" ELSE "allowed",
                                !.method0 = IF should THEN ChosenMethod(dom) ELSE "",
                                !.selected = IF should THEN fr.selected ELSE "",
                                !.method = IF should THEN fr.method ELSE "",
                                !.failures = failures,
                                !.parts = IF should THEN fr.parts ELSE <<>>,
                                !.idx = 1,
                                !.total = IF jitter THEN 0 ELSE Len(first)]]
  /\ UNCHANGED <<cfg, accepted, shutdown, domain_failures, active_connections,
                 blVars, cancelled, pipes, logs, sideVars>>

\* conn_info.traffic_out += n for the registered ConnectionInfo
InfoOut(key, n) ==
  active_connections' = [active_connections EXCEPT ![key].traffic_out = @ + n]

\* lines 228-231, 281-284, 296-299: the drain of the single write returns
\* (the bytes are counted, the relay starts) or raises
TlsDrain(c) ==
  /\ Running(c, "tls_drain")
  /\ \E ok \in BOOLEAN :
       IF ok THEN /\ Count(c, Traffic(0, loc[c].total))
                  /\ InfoOut(loc[c].key, loc[c].total)
                  /\ StartPipes(c, io[c])
             ELSE /\ EnterError(c, io[c])
                  /\ UNCHANGED <<stats, tally, active_connections, pipes>>
  /\ loc' = [loc EXCEPT ![c] = DropTlsLocals(@)]
  /\ UNCHANGED <<cfg, accepted, shutdown, domain_failures, blVars, cancelled,
                 logs, sideVars>>

\* lines 289-292: the drain of one split-jitter part returns or raises
JitDrain(c) ==
  /\ Running(c, "jit_drain")
  /\ \E ok \in BOOLEAN :
       IF ok THEN /\ pc' = [pc EXCEPT ![c] = "jit_sleep"]
                  /\ loc' = [loc EXCEPT ![c].total = @ + Len(loc[c].parts[loc[c].idx])]
                  /\ io' = io
             ELSE /\ EnterError(c, io[c])
                  /\ loc' = [loc EXCEPT ![c] = DropTlsLocals(@)]
  /\ UNCHANGED <<cfg, accepted, shutdown, stats, domain_failures,
                 active_connections, blVars, cancelled, pipes, tally, logs, sideVars>>

\* lines 288-299: the sleep after a part ends; the next part is written, or
\* the loop is over, the bytes are counted and the relay starts
JitSleep(c) ==
  /\ Running(c, "jit_sleep")
  /\ IF loc[c].idx < Len(loc[c].parts)
     THEN /\ loc' = [loc EXCEPT ![c].idx = @ + 1]
          /\ io' = [io EXCEPT ![c].origin_rx = @ \o loc[c].parts[loc[c].idx + 1]]
          /\ pc' = [pc EXCEPT ![c] = "jit_drain"]
          /\ UNCHANGED <<stats, tally, active_connections, pipes>>
     ELSE /\ Count(c, Traffic(0, loc[c].total))
          /\ InfoOut(loc[c].key, loc[c].total)
          /\ StartPipes(c, io[c])
          /\ loc' = [loc EXCEPT ![c] = DropTlsLocals(@)]
  /\ UNCHANGED <<cfg, accepted, shutdown, domain_failures, blVars, cancelled,
                 logs, sideVars>>

\* ------------------------------------------------------------------ _pipe
Dirs == {"out", "in"}

\* the finally block: the pipe commits local_vol to the global counters only
\* (its conn_info is always None)
PipeCommit(c, d) ==
  Traffic(IF d = "in" THEN pipes[c][d].local_vol ELSE 0,
          IF d = "out" THEN pipes[c][d].local_vol ELSE 0)

\* the bytes on their way to a pipe's reader: what is left of the client's
\* first TLS flight, else the relay bytes of the endpoint
Pending(ioc, d) ==
  IF d = "in" THEN ioc.ostream
  ELSE IF ioc.cstream # <<>> THEN ioc.cstream ELSE ioc.cnext

PipeAt(c, d, at) == pc[c] = "relay" /\ ~cancelled[c] /\ pipes[c][d].pc \in at

\* write(data) with the bytes put in front of what the peer already got
WriteFront(sent, data) == data \o sent

\* line 345, write(data): the bytes follow what the peer already got
Write(sent, data) == sent \o data

\* lines 342-349: a chunk is read, written to the other side and counted in
\* local_vol; above the high-water mark the pipe awaits a drain
PipeRead(c, d, k, hwm) ==
  /\ PipeAt(c, d, {"read"})
  /\ LET src == Pending(io[c], d)
     IN /\ k \in 1..Min(BufSize, Len(src))
        /\ LET chunk == PySlice(src, 0, k)
          IN /\ io' = [io EXCEPT ![c] =
                        IF d = "out"
                        THEN [@ EXCEPT !.cstream = PyFrom(@, k),
                                       !.cnext = IF io[c].cstream = <<>>
                                                 THEN PyFrom(@, k) ELSE @,
                                       !.client_tx = @ \o chunk,
                                       !.origin_rx = Write(@, chunk)]
                        ELSE [@ EXCEPT !.ostream = PyFrom(src, k),
                                       !.origin_tx = @ \o chunk,
                                       !.client_rx = Write(@, chunk)]]
             /\ pipes' = [pipes EXCEPT ![c][d] =
                           [pc |-> IF hwm THEN "drain_mid" ELSE "read",
                            local_vol |-> @.local_vol + Len(chunk)]]
  /\ UNCHANGED <<cfg, accepted, shutdown, stats, domain_failures,
                 active_connections, blVars, pc, cancelled, loc, tally, logs,
                 sideVars>>

\* lines 343-344, 351: the source is at EOF; the final drain is awaited
PipeEOF(c, d) ==
  /\ PipeAt(c, d, {"read"})
  /\ pipes' = [pipes EXCEPT ![c][d].pc = "drain_end"]
  /\ io' = [io EXCEPT ![c] = IF d = "out"
                             THEN [@ EXCEPT !.cstream = <<>>, !.cnext = <<>>, !.ceof = TRUE]
                             ELSE [@ EXCEPT !.ostream = <<>>, !.oeof = TRUE]]
  /\ UNCHANGED <<cfg, accepted, shutdown, stats, domain_failures,
                 active_connections, blVars, pc, cancelled, loc, tally, logs,
                 sideVars>>

\* lines 349, 351, 361-369: a drain returns
PipeDrained(c, d) ==
  /\ PipeAt(c, d, {"drain_mid", "drain_end"})
  /\ IF pipes[c][d].pc = "drain_mid"
     THEN /\ pipes' = [pipes EXCEPT ![c][d].pc = "read"]
          /\ NoCount
     ELSE /\ pipes' = [pipes EXCEPT ![c][d].pc = "done"]
          /\ Count(c, PipeCommit(c, d))
  /\ UNCHANGED <<cfg, accepted, shutdown, domain_failures, active_connections,
                 blVars, pc, cancelled, loc, io, logs, sideVars>>

\* lines 355-369: a read or a drain raises; the error is logged for the
\* domain "unknown" and the volume is committed
PipeError(c, d) ==
  /\ PipeAt(c, d, {"read", "drain_mid", "drain_end"})
  /\ pipes' = [pipes EXCEPT ![c][d].pc = "done"]
  /\ LogError(c, Unknown)
  /\ Count(c, AddStats(LogErrorDelta, PipeCommit(c, d)))
  /\ UNCHANGED <<cfg, accepted, shutdown, domain_failures, active_connections,
                 blVars, pc, cancelled, loc, io, sideVars>>

\* lines 353-354, 361-369: the pipe is cancelled at its await
PipeCancelled(c, d) ==
  /\ pc[c] = "relay" /\ cancelled[c]
  /\ pipes[c][d].pc \in {"read", "drain_mid", "drain_end"}
  /\ pipes' = [pipes EXCEPT ![c][d].pc = "done"]
  /\ Count(c, PipeCommit(c, d))
  /\ UNCHANGED <<cfg, accepted, shutdown, domain_failures, active_connections,
                 blVars, pc, cancelled, loc, io, logs, sideVars>>


\* -------------------------------------------------------------- _run_pipes
PipesDone(c) == pipes[c]["out"].pc = "done" /\ pipes[c]["in"].pc = "done"

\* a join that returns as soon as one of the two pipes has ended
RelayJoinFirst(c) ==
  /\ Running(c, "relay")
  /\ pipes[c]["out"].pc = "done" \/ pipes[c]["in"].pc = "done"
  /\ pc' = [pc EXCEPT ![c] = "close_client"]
  /\ io' = [io EXCEPT ![c].cw_closed = TRUE]
  /\ UNCHANGED <<cfg, accepted, shutdown, stats, domain_failures,
                 active_connections, blVars, cancelled, loc, pipes, tally, logs,
                 sideVars>>

\* lines 304-309: gather returns; the client writer is closed and its
\* wait_closed awaited
RelayJoin(c) ==
  /\ Running(c, "relay")
  /\ PipesDone(c)
  /\ pc' = [pc EXCEPT ![c] = "close_client"]
  /\ io' = [io EXCEPT ![c].cw_closed = TRUE]
  /\ UNCHANGED <<cfg, accepted, shutdown, stats, domain_failures,
                 active_connections, blVars, cancelled, loc, pipes, tally, logs,
                 sideVars>>

\* lines 306-311, second iteration: the remote writer is closed
CloseClient(c) ==
  /\ Running(c, "close_client")
  /\ pc' = [pc EXCEPT ![c] = "close_remote"]
  /\ io' = [io EXCEPT ![c].rw_closed = TRUE]
  /\ UNCHANGED <<cfg, accepted, shutdown, stats, domain_failures,
                 active_connections, blVars, cancelled, loc, pipes, tally, logs,
                 sideVars>>

\* the access record of a removed ConnectionInfo
AccessRecord(key, info) ==
  [key |-> key, method |-> info.method, dst_domain |-> info.dst_domain,
   traffic_in |-> info.traffic_in, traffic_out |-> info.traffic_out]

\* a cleanup that clears the domain's failure count instead of decrementing it
CloseRemoteResets(c) ==
  /\ Running(c, "close_remote")
  /\ LET key == loc[c].key
         has == key \in DOMAIN active_connections
         removed == active_connections[key]
     IN /\ active_connections' = Pop(active_connections, key)
        /\ domain_failures' =
             IF has /\ removed.dst_domain \in DOMAIN domain_failures
             THEN [domain_failures EXCEPT ![removed.dst_domain] = 0]
             ELSE domain_failures
        /\ logs' = IF has THEN [logs EXCEPT ![c].access = Append(@, AccessRecord(key, removed))]
                   ELSE logs
  /\ pc' = [pc EXCEPT ![c] = "done"]
  /\ loc' = [loc EXCEPT ![c].outcome = "normal"]
  /\ UNCHANGED <<cfg, accepted, shutdown, stats, blVars, cancelled, pipes, io,
                 tally, sideVars>>

\* lines 313-323: the ConnectionInfo is popped; if there was one, the
\* domain's failure count is decremented and the access record is logged
CloseRemote(c) ==
  /\ Running(c, "close_remote")
  /\ LET key == loc[c].key
         has == key \in DOMAIN active_connections
         removed == active_connections[key]
     IN /\ active_connections' = Pop(active_connections, key)
        /\ domain_failures' =
             IF has /\ removed.dst_domain \in DOMAIN domain_failures
             THEN [domain_failures EXCEPT ![removed.dst_domain] = SatDec(@)]
             ELSE domain_failures
        /\ logs' = IF has THEN [logs EXCEPT ![c].access = Append(@, AccessRecord(key, removed))]
                   ELSE logs
  /\ pc' = [pc EXCEPT ![c] = "done"]
  /\ loc' = [loc EXCEPT ![c].outcome = "normal"]
  /\ UNCHANGED <<cfg, accepted, shutdown, stats, blVars, cancelled, pipes, io,
                 tally, sideVars>>

\* ------------------------------------------------ _handle_connection_error
\* an error path that gives up when the 500 response cannot be written
ErrDrainStrict(c) ==
  /\ Running(c, "err_drain")
  /\ \E ok \in BOOLEAN :
       LET key == loc[c].key
           has == key \in DOMAIN active_connections
           conn_info == active_connections[key]
           domain == IF has THEN conn_info.dst_domain ELSE Unknown
       IN IF ok
          THEN /\ active_connections' = Pop(active_connections, key)
               /\ Count(c, AddStats(Delta(1, 0, 0, 1, ErrorResponseLen, 0), LogErrorDelta))
               /\ domain_failures' =
                    IF has THEN Put(domain_failures, domain, Get(domain_failures, domain, 0) + 1)
                    ELSE domain_failures
               /\ LogError(c, domain)
          ELSE UNCHANGED <<active_connections, stats, tally, domain_failures, logs>>
  /\ pc' = [pc EXCEPT ![c] = "err_wait_closed"]
  /\ io' = [io EXCEPT ![c].cw_closed = TRUE]
  /\ UNCHANGED <<cfg, accepted, shutdown, blVars, cancelled, loc, pipes, sideVars>>

\* lines 375-395: the drain of the 500 response returns or raises; the
\* ConnectionInfo is popped, total and error are counted, the domain's
\* failure count is incremented, the error is logged, the client is closed
ErrDrain(c) ==
  /\ Running(c, "err_drain")
  /\ \E ok \in BOOLEAN :
       LET key == loc[c].key
           has == key \in DOMAIN active_connections
           conn_info == active_connections[key]
           domain == IF has THEN conn_info.dst_domain ELSE Unknown
       IN /\ active_connections' = Pop(active_connections, key)
          /\ Count(c, AddStats(Delta(1, 0, 0, 1, IF ok THEN ErrorResponseLen ELSE 0, 0),
                               LogErrorDelta))
          /\ domain_failures' =
               IF has THEN Put(domain_failures, domain, Get(domain_failures, domain, 0) + 1)
               ELSE domain_failures
          /\ LogError(c, domain)
  /\ pc' = [pc EXCEPT ![c] = "err_wait_closed"]
  /\ io' = [io EXCEPT ![c].cw_closed = TRUE]
  /\ UNCHANGED <<cfg, accepted, shutdown, blVars, cancelled, loc, pipes, sideVars>>

\* lines 396-398: wait_closed returns or raises; the task ends
ErrClosed(c) ==
  /\ Running(c, "err_wait_closed")
  /\ pc' = [pc EXCEPT ![c] = "done"]
  /\ loc' = [loc EXCEPT ![c].outcome = "error"]
  /\ UNCHANGED <<cfg, accepted, shutdown, stats, domain_failures,
                 active_connections, blVars, cancelled, pipes, io, tally, logs,
                 sideVars>>

\* ------------------------------------------------------------ cancellation
Live(c) == pc[c] \notin {"idle", "done"}

\* the event loop is torn down after ProxyServer.shutdown: the listener is
\* closed and every task still running is cancelled (shutdown itself cancels
\* only the tasks in ConnectionHandler.tasks, a list nothing appends to)
Shutdown ==
  /\ ~shutdown
  /\ \E c \in Conns : Live(c)
  /\ shutdown' = TRUE
  /\ cancelled' = [c \in Conns |-> Live(c)]
  /\ UNCHANGED <<cfg, accepted, stats, domain_failures, active_connections,
                 blVars, pc, loc, pipes, io, tally, logs, sideVars>>

\* CancelledError is raised at the await of a task outside RELAY: no handler
\* of handle_connection catches it (it is not an Exception) and the task ends
Cancelled(c) ==
  /\ cancelled[c] /\ Live(c) /\ pc[c] # "relay"
  /\ pc' = [pc EXCEPT ![c] = "done"]
  /\ loc' = [loc EXCEPT ![c].outcome = "cancelled"]
  /\ cancelled' = [cancelled EXCEPT ![c] = FALSE]
  /\ UNCHANGED <<cfg, accepted, shutdown, stats, domain_failures,
                 active_connections, blVars, pipes, io, tally, logs, sideVars>>

\* line 304 under cancellation: once both children have ended the gather
\* raises CancelledError in _run_pipes and the task ends without cleanup
RelayCancelled(c) ==
  /\ cancelled[c] /\ pc[c] = "relay" /\ PipesDone(c)
  /\ pc' = [pc EXCEPT ![c] = "done"]
  /\ loc' = [loc EXCEPT ![c].outcome = "cancelled"]
  /\ cancelled' = [cancelled EXCEPT ![c] = FALSE]
  /\ UNCHANGED <<cfg, accepted, shutdown, stats, domain_failures,
                 active_connections, blVars, pipes, io, tally, logs, sideVars>>

\* the results the environment gives a read: EOF (0) or a size
HeadSizes(c, cuts) == ReadSizes(TlsHeadMax, Len(io[c].cstream), cuts) \cup {0}
DataSizes(c, cuts) == ReadSizes(TlsDataMax, Len(io[c].cstream), cuts) \cup {0}
PipeSizes(c, d, cuts) ==
  IF d = "out" /\ io[c].cstream # <<>> THEN {Len(io[c].cstream)}
  ELSE ReadSizes(BufSize, Len(Pending(io[c], d)), cuts)

\* random sources tried in the connection specifications
LifeDraws == {<<1, 0>>}

\* one connection at a time, every input
Next ==
  \/ Accept(1, 1)
  \/ ReadFirstNothing(1)
  \/ ReadFirstError(1)
  \/ \E req \in Requests, hello \in Hellos : ReadFirst(1, req, hello, MaxRelay)
  \/ ProbeDone(1)
  \/ ConnectFail(1)
  \/ ConnectOK(1)
  \/ EstDrain(1)
  \/ HttpDrain(1)
  \/ \E k \in HeadSizes(1, SegCuts) : TlsHeadRead(1, k)
  \/ TlsReadFail(1)
  \/ \E k \in DataSizes(1, SegCuts), draws \in LifeDraws : TlsDataRead(1, k, draws)
  \/ TlsDrain(1)
  \/ JitDrain(1)
  \/ JitSleep(1)
  \/ \E d \in Dirs, hwm \in BOOLEAN :
       \E k \in PipeSizes(1, d, {1}) : PipeRead(1, d, k, hwm)
  \/ \E d \in Dirs : PipeEOF(1, d)
  \/ \E d \in Dirs : PipeDrained(1, d)
  \/ \E d \in Dirs : PipeError(1, d)
  \/ \E d \in Dirs : PipeCancelled(1, d)
  \/ RelayJoin(1)
  \/ CloseClient(1)
  \/ CloseRemote(1)
  \/ ErrDrain(1)
  \/ ErrClosed(1)
  \/ Shutdown
  \/ Cancelled(1)
  \/ RelayCancelled(1)

Spec == Init /\ [][Next]_vars

\* several connections, one after another and concurrently: requests
\* for a.t, a CONNECT client sending its whole ClientHello at once, the
\* random method, no blacklist; the origin may refuse, drains may fail, the
\* relay carries no payload
ConcRequests == [kind : {"CONNECT", "GET"}, host : {DomA}]
ConcConfigs ==
  {x \in Configs : /\ x.fragment_method = "random" /\ x.bl_mode = "none"
                   /\ x.rules = <<>> /\ x.log_error_file}

ConcInit ==
  /\ cfg \in ConcConfigs
  /\ ConnInit
  /\ FragIdle /\ RuleIdle /\ OracleIdle /\ DnsIdle /\ ExtIdle

ConcNext ==
  \/ \E c \in Conns : Accept(c, MaxAccepts)
  \/ \E c \in Conns, req \in ConcRequests, hello \in Hellos : ReadFirst(c, req, hello, 0)
  \/ \E c \in Conns : ConnectFail(c)
  \/ \E c \in Conns : ConnectOK(c)
  \/ \E c \in Conns : EstDrain(c)
  \/ \E c \in Conns : HttpDrain(c)
  \/ \E c \in Conns : \E k \in HeadSizes(c, {}) \ {0} : TlsHeadRead(c, k)
  \/ \E c \in Conns, draws \in LifeDraws :
       \E k \in DataSizes(c, {}) \ {0} : TlsDataRead(c, k, draws)
  \/ \E c \in Conns : TlsDrain(c)
  \/ \E c \in Conns, d \in Dirs : PipeEOF(c, d)
  \/ \E c \in Conns, d \in Dirs : PipeDrained(c, d)
  \/ \E c \in Conns : RelayJoin(c)
  \/ \E c \in Conns : CloseClient(c)
  \/ \E c \in Conns : CloseRemote(c)
  \/ \E c \in Conns : ErrDrain(c)
  \/ \E c \in Conns : ErrClosed(c)

ConcSpec == ConcInit /\ [][ConcNext]_vars

\* ------------------------------------------------- the fragmenter alone
\* byte strings over {0, 1} up to a length
RECURSIVE BitStrings(_)
BitStrings(n) ==
  IF n = 0 THEN {<<>>}
  ELSE LET shorter == BitStrings(n - 1)
       IN shorter \cup { Append(b, x) : b \in {t \in shorter : Len(t) = n - 1}, x \in {0, 1} }

\* candidate SNI extensions: 00 00, extension length, list length, name
\* type, name length, name bytes (right, wrong and truncated ones)
SniData ==
  { pre \o <<0, 0, 0, e, 0, l, 0, 0, n>> \o tail :
      pre \in {<<>>, <<1>>, <<0, 0, 1>>}, e \in {5, 7, 8}, l \in {3, 5, 6},
      n \in {0, 2, 3}, tail \in {<<>>, <<9>>, <<9, 8>>, <<9, 8, 7, 6>>} }

\* bodies around the 32-byte chunk size
LongData ==
  { [i \in 1..n |-> (i % 5) + z] : n \in {ChunkSize, ChunkSize + 1, 2 * ChunkSize + 1},
                                   z \in {0, 1} }

FragData == BitStrings(MaxShortLen) \cup SniData \cup LongData

FragInputs ==
  [method : Methods \cup {"other"}, failures : {0, 2}, head : {<<22, 3, 1, 0, 0>>},
   data : FragData, draws : DrawSeqs]

\* what lines 278-297 hand to the writer, in order
Written(head, fr) ==
  IF fr.parts = <<>> THEN head \o fr.rest ELSE Join(fr.parts)

\* lines 278-297: the byte strings passed to writer.write, one per call
Writes(head, fr) ==
  IF fr.parts = <<>> THEN <<head \o fr.rest>>
  ELSE IF fr.method = "split-jitter" THEN fr.parts
  ELSE <<Join(fr.parts)>>

FragInit ==
  /\ cfg \in ConcConfigs
  /\ ConnInit
  /\ frag_in \in FragInputs
  /\ frag_out = None
  /\ RuleIdle /\ OracleIdle /\ DnsIdle /\ ExtIdle

\* lines 236-297 applied to one input
FragApply ==
  /\ frag_out = None
  /\ LET fr == Fragments(frag_in.method, frag_in.failures, frag_in.data, frag_in.draws)
     IN frag_out' = <<[parts |-> fr.parts, method |-> fr.method,
                       written |-> Written(frag_in.head, fr),
                       writes |-> Writes(frag_in.head, fr)]>>
  /\ UNCHANGED <<frag_in, connVars, ruleVars, oracleVars, dnsVars, extVars>>

FragNext == FragApply

FragSpec == FragInit /\ [][FragNext]_vars

\* C4: for every method and every data, the payloads of the fragments (each
\* fragment minus its 5-byte forged header), concatenated in the order they
\* are emitted, are exactly the original data.
FragmentsPreserveData ==
  frag_out # None => Payloads(frag_out[1].parts) = frag_in.data

\* a ClientHello with a located SNI of odd length has been cut into four
\* records
FragmentsPreserveDataWitness ==
  /\ frag_out # None
  /\ frag_in.method = "sni"
  /\ Len(frag_out[1].parts) = 4
  /\ Len(frag_out[1].parts[2]) = HdrLen + 2
  /\ Len(frag_out[1].parts[3]) = HdrLen + 1

\* ------------------------------------ one CONNECT under every policy
AutoA == [pattern |-> DomA, action |-> "auto", fragment_method |-> <<"SPLIT">>]

\* every blacklist manager with no rules, with a bypass rule for a.t and a
\* force rule for b.t, and with an auto rule for a.t; no error-log file
PolicyConfigs ==
  { [log_error_file |-> FALSE, fragment_method |-> m, bl_mode |-> b,
     domain_matching |-> "strict", blocked |-> {DomA}, rules |-> r] :
      m \in Methods, b \in {"none", "file", "auto"},
      r \in {<<>>, <<BypassA, ForceB>>, <<AutoA>>} }

PolicyInit ==
  /\ cfg \in PolicyConfigs
  /\ ConnInit
  /\ FragIdle /\ RuleIdle /\ OracleIdle /\ DnsIdle /\ ExtIdle

\* a CONNECT client sending its whole ClientHello at once, up to the start
\* of the relay
PolicyNext ==
  \/ Accept(1, 1)
  \/ \E host \in Domains, hello \in Hellos :
       ReadFirst(1, [kind |-> "CONNECT", host |-> host], hello, 0)
  \/ ProbeDone(1)
  \/ ConnectOK(1)
  \/ EstDrain(1)
  \/ \E k \in HeadSizes(1, {}) \ {0} : TlsHeadRead(1, k)
  \/ \E k \in DataSizes(1, {}) \ {0}, draws \in LifeDraws : TlsDataRead(1, k, draws)
  \/ TlsDrain(1)
  \/ JitDrain(1)
  \/ JitSleep(1)

PolicySpec == PolicyInit /\ [][PolicyNext]_vars

\* ------------------------------------------------------------ dns_cache.py
\* max_entries and ttl given to DNSCache.__init__, the clock's last tick, and
\* the resolve calls made in all
DnsMaxEntries == 2
DnsTtl == 2
DnsMaxTime == 3
MaxCalls == 3

DigitChars == <<"0", "1", "2", "3", "4", "5", "6", "7", "8", "9">>

\* str(n) for n >= 0
RECURSIVE Decimal(_)
Decimal(n) ==
  IF n < 10 THEN <<DigitChars[n + 1]>>
  ELSE Decimal(n \div 10) \o <<DigitChars[(n % 10) + 1]>>

\* f"{host}:{port}"
DnsKey(host, port) == host \o <<":">> \o Decimal(port)

DnsQueries == {<<DomA, 80>>, <<DomA, 443>>, <<DomB, 443>>}
\* what getaddrinfo may return
AddrLists == {<<1>>, <<2>>}

\* resolve calls made so far
RECURSIVE CallsMade(_)
CallsMade(ps) ==
  IF ps = {} THEN 0
  ELSE LET p == CHOOSE x \in ps : TRUE IN dns_calls[p].made + CallsMade(ps \ {p})

\* self._cache.get(key)
DnsGet(cache, key) ==
  IF \E i \in 1..Len(cache) : cache[i].key = key
  THEN <<cache[CHOOSE i \in 1..Len(cache) : cache[i].key = key]>>
  ELSE None

\* an entry due at this very instant still served
UnexpiredOrDue(entry, now) == entry.expiry >= now

\* entry[0] > now
Unexpired(entry, now) == entry.expiry > now

\* the newest entry dropped instead
DnsEvictNewest(cache) == SubSeq(cache, 1, Len(cache) - 1)

\* self._cache.pop(next(iter(self._cache))): the first key in insertion order
DnsEvict(cache) == Tail(cache)

\* self._cache[key] = value: a known key keeps its place, a new one goes last
DnsPut(cache, entry) ==
  IF \E i \in 1..Len(cache) : cache[i].key = entry.key
  THEN [i \in 1..Len(cache) |-> IF cache[i].key = entry.key THEN entry ELSE cache[i]]
  ELSE Append(cache, entry)

\* time.monotonic() moves on
DnsTick ==
  /\ dns_now < DnsMaxTime
  /\ dns_now' = dns_now + 1
  /\ UNCHANGED <<dns_cache, dns_calls, connVars, fragVars, ruleVars, oracleVars, extVars>>

\* lines 18-24: the clock is read, the entry looked up; an unexpired entry is
\* returned, otherwise getaddrinfo is awaited
DnsResolveStart(p, host, port) ==
  /\ dns_calls[p].pc # "resolving"
  /\ CallsMade(DnsCallers) < MaxCalls
  /\ LET now == dns_now
         key == DnsKey(host, port)
         entry == DnsGet(dns_cache, key)
         hit == entry # None /\ Unexpired(entry[1], now)
     IN dns_calls' = [dns_calls EXCEPT ![p] =
          [pc |-> IF hit THEN "done" ELSE "resolving", made |-> @.made + 1,
           key |-> key, now |-> now,
           result |-> IF hit THEN entry[1].addrs ELSE <<>>, cached |-> hit]]
  /\ UNCHANGED <<dns_now, dns_cache, connVars, fragVars, ruleVars, oracleVars, extVars>>

\* lines 24-28: getaddrinfo returns; at capacity the oldest entry is popped,
\* the result is stored with expiry now + ttl and returned
DnsResolved(p, addrs) ==
  /\ dns_calls[p].pc = "resolving"
  /\ LET call == dns_calls[p]
         room == IF Len(dns_cache) >= DnsMaxEntries THEN DnsEvict(dns_cache)
                 ELSE dns_cache
     IN /\ dns_cache' = DnsPut(room, [key |-> call.key, expiry |-> call.now + DnsTtl,
                                      addrs |-> addrs])
        /\ dns_calls' = [dns_calls EXCEPT ![p].pc = "done", ![p].result = addrs]
  /\ UNCHANGED <<dns_now, connVars, fragVars, ruleVars, oracleVars, extVars>>

\* line 24: getaddrinfo raises and so does resolve
DnsResolveFail(p) ==
  /\ dns_calls[p].pc = "resolving"
  /\ dns_calls' = [dns_calls EXCEPT ![p].pc = "failed"]
  /\ UNCHANGED <<dns_now, dns_cache, connVars, fragVars, ruleVars, oracleVars, extVars>>

DnsInit ==
  /\ cfg \in ConcConfigs
  /\ ConnInit
  /\ FragIdle /\ RuleIdle /\ OracleIdle /\ DnsIdle /\ ExtIdle

DnsNext ==
  \/ DnsTick
  \/ \E p \in DnsCallers, q \in DnsQueries : DnsResolveStart(p, q[1], q[2])
  \/ \E p \in DnsCallers, addrs \in AddrLists : DnsResolved(p, addrs)
  \/ \E p \in DnsCallers : DnsResolveFail(p)

DnsSpec == DnsInit /\ [][DnsNext]_vars

\* ------------------------------------------------- the rule engine alone
\* rules in a list
MaxRules == 2

PatStarAT == <<"*", ".", "a", ".", "t">>
PatA == <<"a">>
PatUpperAT == <<"A", ".", "T">>
DomBA == <<"b", ".", "a", ".", "t">>
DomBaT == <<"b", "a", ".", "t">>
DomUpperBA == <<"B", ".", "A", ".", "T">>

RulePatterns == {PatStarAT, DomA, PatA, PatUpperAT, <<>>}
RuleDomains == {DomA, DomBA, DomBaT, DomUpperBA, <<"t">>}

RulePool ==
  [pattern : RulePatterns, action : {"bypass", "force", "auto"},
   fragment_method : {None, <<"SNI">>}]

\* the lists of up to n rules
RECURSIVE RuleLists(_)
RuleLists(n) ==
  IF n = 0 THEN {<<>>}
  ELSE LET shorter == RuleLists(n - 1)
       IN shorter \cup { <<r>> \o l : r \in RulePool, l \in {x \in shorter : Len(x) = n - 1} }

RuleInputs == [rules : RuleLists(MaxRules), domain : RuleDomains]

RuleInit ==
  /\ cfg \in ConcConfigs
  /\ ConnInit
  /\ rule_in \in RuleInputs
  /\ rule_out = None
  /\ FragIdle /\ OracleIdle /\ DnsIdle /\ ExtIdle

\* decide(domain), and _match as decide calls it for each rule of the list
RuleApply ==
  /\ rule_out = None
  /\ rule_out' =
       <<[matched |-> [i \in 1..Len(rule_in.rules) |->
                         RuleMatch(Lower(rule_in.rules[i].pattern), Lower(rule_in.domain))],
          result |-> RuleDecide(rule_in.rules, rule_in.domain)]>>
  /\ UNCHANGED <<rule_in, connVars, fragVars, oracleVars, dnsVars, extVars>>

RuleNext == RuleApply

RuleSpec == RuleInit /\ [][RuleNext]_vars

\* ------------------------------------------- the file blacklist alone
\* lines in the blacklist file
MaxLines == 2

\* str.strip() for blanks
RECURSIVE Strip(_)
Strip(line) ==
  IF line # <<>> /\ Head(line) = " " THEN Strip(Tail(line))
  ELSE IF line # <<>> /\ line[Len(line)] = " " THEN Strip(SubSeq(line, 1, Len(line) - 1))
  ELSE line

\* load_blacklist: blank, one-character and comment lines are skipped, the
\* others are lowercased and lose every "www."
RECURSIVE LoadBlacklist(_)
LoadBlacklist(lines) ==
  IF lines = <<>> THEN {}
  ELSE LET line == Strip(Head(lines))
       IN IF Len(line) < 2 \/ Head(line) = "#" THEN LoadBlacklist(Tail(lines))
          ELSE {Remove(Lower(line), Www)} \cup LoadBlacklist(Tail(lines))

FileLines ==
  {DomA, <<"#", "a", ".", "t">>, Www \o DomB, <<" ">> \o DomUpperBA, <<"t">>}

\* the files of up to n lines
RECURSIVE Files(_)
Files(n) ==
  IF n = 0 THEN {<<>>}
  ELSE LET shorter == Files(n - 1)
       IN shorter \cup { <<l>> \o f : l \in FileLines, f \in {x \in shorter : Len(x) = n - 1} }

QueryDomains ==
  {DomA, PatUpperAT, DomB, DomBA, DomUpperBA, DomBaT, Www \o DomA, <<"b">> \o Www \o DomA,
   <<"w", ".", "b", ".", "a", ".", "t">>, <<"t">>}

OracleInputs ==
  [lines : Files(MaxLines), domain_matching : {"strict", "loose"}, domain : QueryDomains]

OracleInit ==
  /\ cfg \in ConcConfigs
  /\ ConnInit
  /\ bl_in \in OracleInputs
  /\ bl_out = None
  /\ FragIdle /\ RuleIdle /\ DnsIdle /\ ExtIdle

\* FileBlacklistManager(config) followed by is_blocked(domain)
OracleApply ==
  /\ bl_out = None
  /\ LET blocked_set == LoadBlacklist(bl_in.lines)
     IN bl_out' = <<[blocked_set |-> blocked_set,
                     result |-> FileIsBlocked(blocked_set, bl_in.domain_matching,
                                              bl_in.domain)]>>
  /\ UNCHANGED <<bl_in, connVars, fragVars, ruleVars, dnsVars, extVars>>

OracleNext == OracleApply

OracleSpec == OracleInit /\ [][OracleNext]_vars

\* ------------------------------------------------- gui_app.py: the lists
\* The control UI keeps its list state in two places: the files
\* unlocked/<name>.txt and "selected_lists" in gui_config.json.  Every
\* request handler starts with load_config() and the handlers that change
\* the selection end with save_config(cfg).  Requests are served one after
\* another; the contents of the list files are left out.
nonGuiVars == <<connVars, fragVars, ruleVars, oracleVars, dnsVars, bootVars, statsFileVars, shutVars>>

\* load_config: cfg["selected_lists"]
load_config ==
  IF gui_selected = {} /\ gui_dir THEN gui_files ELSE gui_selected

\* sanitize_list_name raises ValueError
InvalidName(name) == name = ""

\* list_entries(cfg): one entry per file in sorted order
list_entries(files, selected) ==
  LET present == SelectSeq(ListNames, LAMBDA n : n \in files)
  IN [i \in 1..Len(present) |->
        [name |-> present[i], enabled |-> present[i] \in selected]]

OkResp == [kind |-> "ok", code |-> 200, lists |-> <<>>]
TextResp(code) == [kind |-> "text", code |-> code, lists |-> <<>>]
\* an exception left the handler: the connection is closed without a response
Dropped == [kind |-> "dropped", code |-> 0, lists |-> <<>>]

\* GET /api/lists
GuiGetLists ==
  /\ gui_resp' = [kind |-> "lists", code |-> 200,
                  lists |-> list_entries(gui_files, load_config)]
  /\ gui_dir' = TRUE
  /\ UNCHANGED <<gui_files, gui_selected, gui_asked, nonGuiVars>>

\* POST /api/lists {"name": name}
GuiCreate(name) ==
  /\ IF InvalidName(name) THEN
       /\ gui_resp' = TextResp(400)
       /\ UNCHANGED <<gui_dir, gui_files, gui_selected, gui_asked>>
     ELSE IF name \in gui_files THEN
       /\ gui_resp' = TextResp(409)
       /\ UNCHANGED <<gui_dir, gui_files, gui_selected, gui_asked>>
     ELSE IF ~gui_dir THEN
       \* write_text into a directory that does not exist
       /\ gui_resp' = Dropped
       /\ UNCHANGED <<gui_dir, gui_files, gui_selected, gui_asked>>
     ELSE
       /\ gui_files' = gui_files \cup {name}
       /\ gui_selected' = load_config \cup {name}
       /\ gui_resp' = OkResp
       /\ gui_asked' = [gui_asked EXCEPT ![name] = "created"]
       /\ UNCHANGED gui_dir
  /\ UNCHANGED nonGuiVars

\* POST /api/lists/<name>/toggle {"enabled": enabled}
GuiToggle(name, enabled) ==
  /\ IF InvalidName(name) THEN
       /\ gui_resp' = TextResp(400)
       /\ UNCHANGED <<gui_selected, gui_asked>>
     ELSE IF name \notin gui_files THEN
       /\ gui_resp' = TextResp(404)
       /\ UNCHANGED <<gui_selected, gui_asked>>
     ELSE
       /\ gui_selected' = IF enabled THEN load_config \cup {name}
                          ELSE load_config \ {name}
       /\ gui_resp' = OkResp
       /\ gui_asked' = [gui_asked EXCEPT ![name] = IF enabled THEN "on" ELSE "off"]
  /\ UNCHANGED <<gui_dir, gui_files, nonGuiVars>>

\* DELETE /api/lists/<name>
GuiDelete(name) ==
  /\ IF InvalidName(name) THEN
       /\ gui_resp' = TextResp(400)
       /\ UNCHANGED <<gui_files, gui_selected, gui_asked>>
     ELSE IF name \notin gui_files THEN
       /\ gui_resp' = TextResp(404)
       /\ UNCHANGED <<gui_files, gui_selected, gui_asked>>
     ELSE
       /\ gui_files' = gui_files \ {name}
       /\ gui_selected' = load_config \ {name}
       /\ gui_resp' = OkResp
       /\ gui_asked' = [gui_asked EXCEPT ![name] = "none"]
  /\ UNCHANGED <<gui_dir, nonGuiVars>>

\* the names a client sends: the three lists and the empty name
GuiNames == ListNameSet \cup {""}

\* the UI starts with or without unlocked/ and the lists shipped in it
GuiInit ==
  /\ cfg \in ConcConfigs
  /\ ConnInit
  /\ FragIdle /\ RuleIdle /\ OracleIdle /\ DnsIdle /\ BootIdle /\ StatsFileIdle /\ ShutIdle
  /\ gui_dir \in BOOLEAN
  /\ gui_files \in IF gui_dir THEN SUBSET {ListNames[1], ListNames[2]} ELSE {{}}
  /\ gui_selected = {}
  /\ gui_resp = NoResp
  /\ gui_asked = NotAsked

GuiNext ==
  \/ GuiGetLists
  \/ \E name \in GuiNames : GuiCreate(name)
  \/ \E name \in GuiNames, enabled \in BOOLEAN : GuiToggle(name, enabled)
  \/ \E name \in GuiNames : GuiDelete(name)

GuiSpec == GuiInit /\ [][GuiNext]_vars

\* ------------------------------------------------------ app.py: start-up
\* run() builds the blacklist manager, then ProxyServer.run() binds the
\* listening socket and serves.  SystemExit leaves run(), asyncio.run() and
\* main() and ends the process with its status.
nonBootVars == <<connVars, fragVars, ruleVars, oracleVars, dnsVars, guiVars, statsFileVars, shutVars>>

\* BlacklistManagerFactory.create: only FileBlacklistManager reads the file
FactoryCreate ==
  /\ boot_pc = "create"
  /\ IF cfg.bl_mode = "file" /\ ~boot_env.blacklist_exists
     THEN boot_pc' = "exited" /\ exit_status' = <<1>>
     ELSE boot_pc' = "run" /\ UNCHANGED exit_status
  /\ UNCHANGED <<boot_env, nonBootVars>>

\* a run() that serves although the bind failed
ServerRunAnyway ==
  /\ boot_pc = "run"
  /\ boot_pc' = "serving"
  /\ UNCHANGED <<boot_env, exit_status, nonBootVars>>

\* ProxyServer.run: asyncio.start_server raises OSError or listens
ServerRun ==
  /\ boot_pc = "run"
  /\ IF ~boot_env.port_free
     THEN boot_pc' = "exited" /\ exit_status' = <<1>>
     ELSE boot_pc' = "serving" /\ UNCHANGED exit_status
  /\ UNCHANGED <<boot_env, nonBootVars>>

BootInit ==
  /\ cfg \in Configs
  /\ ConnInit
  /\ FragIdle /\ RuleIdle /\ OracleIdle /\ DnsIdle /\ GuiIdle /\ StatsFileIdle /\ ShutIdle
  /\ boot_env \in [blacklist_exists : BOOLEAN, port_free : BOOLEAN]
  /\ boot_pc = "create"
  /\ exit_status = None

\* start-up, then clients that connect and send nothing or a request
BootNext ==
  \/ FactoryCreate
  \/ ServerRun
  \/ Accept(1, MaxAccepts)
  \/ ReadFirstNothing(1)
  \/ \E req \in Requests, hello \in Hellos : ReadFirst(1, req, hello, 0)

BootSpec == BootInit /\ [][BootNext]_vars

\* -------------------------------------------- server.py: the stats file
\* write_stats runs in the proxy process; the control UI is another process
\* and reads the file whenever a client asks for /api/stats.
nonStatsFileVars == <<fragVars, ruleVars, oracleVars, dnsVars, guiVars, bootVars, shutVars>>

\* json_dumps(Statistics.snapshot()): the bytes "{" (123) and "}" (125)
\* around the counters
json_dumps(st) ==
  <<123, st.total, st.allowed, st.blocked, st.errors, 125>>

\* json.loads accepts the text
IsJson(text) ==
  /\ Len(text) = 6
  /\ text[1] = 123 /\ text[6] = 125

\* write_stats, lines 113-121: the snapshot is taken and open(path, "w")
\* creates or truncates the file; f.write leaves the text in f's buffer
StatsOpen ==
  /\ sf_pc = "sleep"
  /\ sf_pc' = "open"
  /\ sf_buf' = json_dumps(stats)
  /\ sf_file' = <<<<>>>>
  /\ UNCHANGED <<sf_read, connVars, nonStatsFileVars>>

\* write_stats, line 121: leaving the with block flushes the buffer and
\* closes the file
StatsClose ==
  /\ sf_pc = "open"
  /\ sf_pc' = "sleep"
  /\ sf_file' = <<sf_buf>>
  /\ sf_buf' = <<>>
  /\ UNCHANGED <<sf_read, connVars, nonStatsFileVars>>

\* gui_app.py, /api/stats: GUI_STATS_PATH.exists() and read_text()
StatsRead ==
  /\ sf_file # None
  /\ sf_read' = sf_file
  /\ UNCHANGED <<sf_pc, sf_buf, sf_file, connVars, nonStatsFileVars>>

StatsFileInit ==
  /\ cfg \in Configs
  /\ ConnInit
  /\ FragIdle /\ RuleIdle /\ OracleIdle /\ DnsIdle /\ ExtIdle

\* the writer, the reader and clients whose first read fails
StatsFileNext ==
  \/ StatsOpen
  \/ StatsClose
  \/ StatsRead
  \/ Accept(1, MaxAccepts)
  \/ ReadFirstError(1)
  \/ ErrDrain(1)
  \/ ErrClosed(1)

StatsFileSpec == StatsFileInit /\ [][StatsFileNext]_vars

\* ------------------------------------------- server.py, app.py: shutdown
\* app.run awaits server.run; a CancelledError raised there (Ctrl-C) is caught
\* and server.shutdown is awaited.  Connection tasks keep running meanwhile.
nonShutVars == <<fragVars, ruleVars, oracleVars, dnsVars, guiVars, bootVars, statsFileVars>>

\* run, lines 149-155: the periodic tasks are created, then serve_forever
RunTasks ==
  /\ sd_pc = "tasks"
  /\ periodic' = CreatedTasks(sd_env)
  /\ sd_pc' = "serving"
  /\ UNCHANGED <<sd_env, connVars, nonShutVars>>

\* app.run, lines 76-79: CancelledError leaves server.run
Interrupt ==
  /\ sd_pc = "serving"
  /\ sd_pc' = "close"
  /\ UNCHANGED <<sd_env, periodic, connVars, nonShutVars>>

\* shutdown, lines 158-160: server.close() stops listening
ServerClose ==
  /\ sd_pc = "close"
  /\ sd_pc' = "wait_closed"
  /\ UNCHANGED <<sd_env, periodic, connVars, nonShutVars>>

\* shutdown, line 160: wait_closed returns (whether it waits for the open
\* connections depends on the interpreter's version)
ServerWaitClosed ==
  /\ sd_pc = "wait_closed"
  /\ sd_pc' = "cancel"
  /\ UNCHANGED <<sd_env, periodic, connVars, nonShutVars>>

\* shutdown, lines 161-164: stats_write_task is cancelled, and so is every
\* task of ConnectionHandler.tasks, a list nothing appends to
CancelTasks ==
  /\ sd_pc = "cancel"
  /\ periodic' = [periodic EXCEPT !["write_stats"] =
                    IF @ = "scheduled" THEN "cancelled" ELSE @]
  /\ sd_pc' = "returned"
  /\ UNCHANGED <<sd_env, connVars, nonShutVars>>

Listening == sd_pc \in {"tasks", "serving", "close"}

ShutInit ==
  /\ cfg \in Configs
  /\ ConnInit
  /\ FragIdle /\ RuleIdle /\ OracleIdle /\ DnsIdle
  /\ GuiIdle /\ BootIdle /\ StatsFileIdle
  /\ sd_env \in [quiet : BOOLEAN, stats_file : BOOLEAN]
  /\ sd_pc = "tasks"
  /\ periodic = [t \in TaskNames |-> "none"]

\* start, clients, Ctrl-C and shutdown
ShutNext ==
  \/ RunTasks
  \/ Interrupt
  \/ ServerClose
  \/ ServerWaitClosed
  \/ CancelTasks
  \/ Accept(1, MaxAccepts)
  \/ ReadFirstNothing(1)
  \/ \E req \in Requests, hello \in Hellos : ReadFirst(1, req, hello, 0)

ShutSpec == ShutInit /\ [][ShutNext]_vars

\* ------------------------------------- concurrent checks of the adaptive oracle
\* several CONNECT clients of a proxy started with --autoblacklist: a task
\* that finds the domain in neither set awaits its own probe
ProbeConfigs ==
  {x \in Configs : /\ x.fragment_method = "random" /\ x.bl_mode = "auto"
                   /\ x.rules = <<>> /\ ~x.log_error_file}

ProbeInit ==
  /\ cfg \in ProbeConfigs
  /\ ConnInit
  /\ FragIdle /\ RuleIdle /\ OracleIdle /\ DnsIdle /\ ExtIdle

ProbeNext ==
  \/ \E c \in Conns : Accept(c, MaxAccepts)
  \/ \E c \in Conns, req \in ConcRequests, hello \in Hellos : ReadFirst(c, req, hello, 0)
  \/ \E c \in Conns : ProbeDone(c)
  \/ \E c \in Conns : ConnectFail(c)
  \/ \E c \in Conns : ErrDrain(c)
  \/ \E c \in Conns : ErrClosed(c)

ProbeSpec == ProbeInit /\ [][ProbeNext]_vars

\* ------------------------------------------------------------ properties
\* C1: a connection whose request was parsed and whose task has ended on its
\* own (normally or through the error handler) has incremented total exactly
\* once and exactly one of allowed, blocked, error exactly once.
CountedExactlyOnce ==
  \A c \in Conns :
    (/\ pc[c] = "done"
     /\ loc[c].req.kind \in {"CONNECT", "GET"}
     /\ loc[c].outcome \in {"normal", "error"})
    => /\ tally[c].total = 1
       /\ tally[c].allowed + tally[c].blocked + tally[c].errors = 1

\* C2: once a handle_connection task has ended (normally, through the error
\* handler or through cancellation) active_connections holds no entry for its
\* key, and the map is empty whenever no task is running.
NoEntryAfterTermination ==
  /\ \A c \in Conns : pc[c] = "done" => loc[c].key \notin DOMAIN active_connections
  /\ (\A c \in Conns : ~Live(c)) => active_connections = EmptyMap

\* C3: a registered connection whose task has ended normally or through the
\* error handler has emitted exactly one access record, after its
\* ConnectionInfo was removed; a connection never registered has emitted none.
OneAccessRecordPerRegistered ==
  \A c \in Conns :
    pc[c] = "done" /\ loc[c].outcome \in {"normal", "error"}
    => /\ loc[c].key \notin DOMAIN active_connections
       /\ Len(logs[c].access) = IF loc[c].req.kind \in {"CONNECT", "GET"} THEN 1 ELSE 0

\* C5: at the end of a connection the traffic_in and traffic_out of its
\* ConnectionInfo (as written to the access record) equal what the connection
\* added to the global traffic_in and traffic_out, relay bytes included.
InfoTrafficIsGlobalTraffic ==
  \A c \in Conns :
    pc[c] = "done" /\ loc[c].outcome = "normal" /\ logs[c].access # <<>>
    => /\ logs[c].access[1].traffic_in = tally[c].traffic_in
       /\ logs[c].access[1].traffic_out = tally[c].traffic_out

\* C6: every failure count in domain_failures is at least zero, whatever the
\* interleaving of failing connections and closing relays.
FailuresNonNegative ==
  \A d \in DOMAIN domain_failures : domain_failures[d] >= 0

\* a failure count is back at zero after one failure and two relays that
\* closed normally
FailuresNonNegativeWitness ==
  /\ DomA \in DOMAIN domain_failures /\ domain_failures[DomA] = 0
  /\ accepted = 3
  /\ \A c \in {1, 2} : pc[c] = "done" /\ loc[c].outcome = "normal"

\* C7: a fragmented connection to a domain with two or more recorded failures
\* whose chosen method (the rule's, else the default) is random uses sni; so
\* does the third attempt after two failures.
RandomUpgradedToSni ==
  \A c \in Conns :
    (/\ pc[c] \in {"tls_drain", "jit_drain", "jit_sleep"}
     /\ loc[c].decision = "blocked"
     /\ loc[c].failures >= 2
     /\ loc[c].method0 = "random")
    => /\ loc[c].selected = "sni"
       /\ extract_sni_position(loc[c].data) # None
          => loc[c].parts = SniParts(loc[c].data, extract_sni_position(loc[c].data))

\* the third attempt to a.t, after two failed ones, has written its fragments
RandomUpgradedToSniWitness ==
  \E c \in Conns :
    /\ pc[c] = "tls_drain" /\ loc[c].peer = 3
    /\ loc[c].failures = 2 /\ loc[c].method0 = "random"
    /\ Len(loc[c].parts) = 4

\* C8: a CONNECT whose origin refuses the connection gets the 500 response,
\* raises total by one and error by exactly one, leaves allowed and blocked
\* alone and raises the failure count of its domain by one.
RefusedConnectCounts ==
  \A c \in Conns :
    (/\ pc[c] \in {"err_wait_closed", "done"}
     /\ loc[c].req.kind = "CONNECT" /\ ~loc[c].remote
     /\ logs[c].errors # <<>>)
    => /\ io[c].client_rx = ErrorResponse
       /\ tally[c].total = 1 /\ tally[c].errors = 1
       /\ tally[c].allowed = 0 /\ tally[c].blocked = 0
       /\ Get(domain_failures, loc[c].req.host, 0) = 1

CancelledRelayCleansUp ==
  \A c \in Conns :
    (/\ pc[c] = "done" /\ loc[c].outcome = "cancelled"
     /\ PipesDone(c) /\ ~io[c].cw_closed)
    => /\ loc[c].key \notin DOMAIN active_connections
       /\ Len(logs[c].access) = 1

\* C11: resolve returns a cached address list only when the entry's expiry is
\* strictly later than the time read at the start of the call; an absent or
\* expired entry leads to a fresh resolution, whose result is stored under
\* the key with expiry now + ttl, now being that same start time.
ServesOnlyUnexpired ==
  [][\A p \in DnsCallers :
       LET before == dns_calls[p]
           after == dns_calls'[p]
           started == after.made = before.made + 1
           live == {i \in 1..Len(dns_cache) :
                      dns_cache[i].key = after.key /\ dns_cache[i].expiry > dns_now}
           stored == {i \in 1..Len(dns_cache') : dns_cache'[i].key = before.key}
       IN /\ started /\ after.pc = "done"
             => \E i \in live : after.result = dns_cache[i].addrs
          /\ started /\ live = {} => after.pc = "resolving"
          /\ before.pc = "resolving" /\ after.pc = "done"
             => /\ Cardinality(stored) = 1
                /\ \A i \in stored :
                     /\ dns_cache'[i].expiry = before.now + DnsTtl
                     /\ dns_cache'[i].addrs = after.result]_vars

\* a key was served from the cache and, by a later call, resolved afresh
ServesOnlyUnexpiredWitness ==
  \E p, q \in DnsCallers :
    /\ dns_calls[p].pc = "done" /\ dns_calls[p].cached
    /\ dns_calls[q].pc = "done" /\ ~dns_calls[q].cached
    /\ dns_calls[q].key = dns_calls[p].key
    /\ dns_calls[q].now >= dns_calls[p].now + DnsTtl

\* C12: the cache never holds more than max_entries entries, whatever the
\* interleaving of resolve calls; an insertion that finds the cache at
\* capacity first evicts exactly one entry, the oldest in insertion order.
CacheBoundedFifo ==
  /\ [](Len(dns_cache) <= DnsMaxEntries)
  /\ [][\A p \in DnsCallers :
          (/\ dns_calls[p].pc = "resolving" /\ dns_calls'[p].pc = "done"
           /\ Len(dns_cache) >= DnsMaxEntries)
          => LET keys == [i \in 1..Len(dns_cache) |-> dns_cache[i].key]
                 keys2 == [i \in 1..Len(dns_cache') |-> dns_cache'[i].key]
                 kept == Tail(keys)
                 key == dns_calls[p].key
             IN keys2 = IF \E i \in 1..Len(kept) : kept[i] = key THEN kept
                        ELSE Append(kept, key)]_vars

\* the cache is full and a key resolved earlier is no longer in it
CacheBoundedFifoWitness ==
  /\ Len(dns_cache) = DnsMaxEntries
  /\ \E p \in DnsCallers :
       /\ dns_calls[p].pc = "done" /\ ~dns_calls[p].cached
       /\ \A i \in 1..Len(dns_cache) : dns_cache[i].key # dns_calls[p].key

\* C13: the rule *.a.t matches b.a.t and a.t; the rule a.t matches a.t and
\* b.a.t; the rule a does not match ba.t (a bare pattern matches only the
\* domain itself or a dot-delimited subdomain of it).
RuleMatchExamples ==
  rule_out # None =>
    \A i \in 1..Len(rule_in.rules) :
      LET p == rule_in.rules[i].pattern
          d == rule_in.domain
          m == rule_out[1].matched[i]
      IN /\ p = PatStarAT /\ d \in {DomBA, DomA} => m
         /\ p = DomA /\ d \in {DomA, DomBA} => m
         /\ p = PatA /\ d = DomBaT => ~m

\* C14: decide returns the translation of the first rule, in list order, whose
\* pattern matches (bypass: false, force: true, auto: none, each with the
\* rule's method); later rules never count, even after a matching auto rule;
\* without a matching rule the result is (none, none).
FirstMatchWins ==
  rule_out # None =>
    LET hits == {i \in 1..Len(rule_in.rules) : rule_out[1].matched[i]}
        res == rule_out[1].result
    IN IF hits = {} THEN res.decision = None /\ res.method = None
       ELSE LET r == rule_in.rules[CHOOSE i \in hits : \A j \in hits : i <= j]
            IN /\ res.decision = CASE r.action = "bypass" -> <<FALSE>>
                                   [] r.action = "force" -> <<TRUE>>
                                   [] OTHER -> None
               /\ res.method = IF r.fragment_method = None THEN None ELSE <<"sni">>

\* a matching auto rule with a method, followed by a matching force rule
FirstMatchWinsWitness ==
  /\ rule_out # None
  /\ Len(rule_in.rules) = 2
  /\ rule_out[1].matched = <<TRUE, TRUE>>
  /\ rule_in.rules[1].action = "auto" /\ rule_in.rules[1].fragment_method # None
  /\ rule_in.rules[2].action = "force" /\ rule_in.rules[2].fragment_method = None
  /\ rule_out[1].result = [decision |-> None, method |-> <<"sni">>]

\* C16: the strict file oracle answers true exactly when the normalised
\* query (lowercased, a leading www. removed) is in the set or one of its
\* proper dot-suffixes is, whatever the letter case of the query.
StrictOracleNormalises ==
  bl_out # None /\ bl_in.domain_matching = "strict" =>
    LET low == Lower(bl_in.domain)
        q == IF StartsWith(low, Www) THEN PyFrom(low, Len(Www)) ELSE low
        parents == { PyFrom(q, i) : i \in { j \in 1..Len(q) : q[j] = "." } }
    IN bl_out[1].result <=> (q \in bl_out[1].blocked_set
                             \/ parents \cap bl_out[1].blocked_set # {})

\* C15: for a CONNECT a matching bypass or force rule prevails over the
\* blacklist oracle in every blacklist mode (bypass: head + data reach the
\* origin unmodified and the connection counts as allowed; force: the payload
\* is fragmented and the connection counts as blocked), the rule's method
\* replaces the configured one, and without a deciding rule the oracle's
\* answer is used, which without a blacklist is always "fragment".
RulePrevailsOverOracle ==
  \A c \in Conns :
    pc[c] \in {"tls_drain", "jit_drain", "jit_sleep"} =>
      LET host == loc[c].req.host
          plain == TlsHeader(SniHello) \o SniHello
          oracle == CASE cfg.bl_mode = "none" -> TRUE
                      [] cfg.bl_mode = "file" -> host \in cfg.blocked
                      [] OTHER -> host \in bl_blocked
          allowed == /\ loc[c].decision = "allowed"
                     /\ tally[c].allowed = 1 /\ tally[c].blocked = 0
                     /\ io[c].origin_rx = plain
          blocked == /\ loc[c].decision = "blocked"
                     /\ tally[c].blocked = 1 /\ tally[c].allowed = 0
                     /\ loc[c].parts # <<>>
                     /\ Payloads(loc[c].parts) = SniHello
                     /\ io[c].origin_rx # plain
      IN /\ cfg.rules = <<BypassA, ForceB>> /\ host = DomA => allowed
         /\ cfg.rules = <<BypassA, ForceB>> /\ host = DomB
            => blocked /\ loc[c].method0 = "sni"
         /\ cfg.rules = <<AutoA>> /\ host = DomA
            => /\ IF oracle THEN blocked ELSE allowed
               /\ oracle => loc[c].method0 = "split"
         /\ (cfg.rules = <<>> \/ (cfg.rules = <<AutoA>> /\ host = DomB))
            => /\ IF oracle THEN blocked ELSE allowed
               /\ oracle => loc[c].method0 = cfg.fragment_method

\* a domain the blacklist file lists was bypassed by its rule, or a domain
\* the adaptive oracle holds unblocked was forced by its rule
RulePrevailsOverOracleWitness ==
  \E c \in Conns :
    /\ pc[c] = "tls_drain"
    /\ cfg.rules = <<BypassA, ForceB>>
    /\ \/ cfg.bl_mode = "file" /\ loc[c].req.host = DomA /\ loc[c].decision = "allowed"
       \/ cfg.bl_mode = "auto" /\ loc[c].req.host = DomB /\ DomB \in bl_white
          /\ loc[c].decision = "blocked"

\* C17: a completed check of the adaptive oracle leaves the domain in exactly
\* one of the whitelist set and the blocked set (success and every failure
\* other than a handshake timeout: whitelist; handshake timeout: blocked set
\* and backing file), so that a later check of it performs no probe.
ProbeAlwaysClassifies ==
  \A c \in Conns :
    loc[c].probed =>
      LET host == loc[c].req.host
      IN /\ (host \in bl_white) # (host \in bl_blocked)
         /\ host \in bl_blocked <=> \E i \in 1..Len(bl_file) : bl_file[i] = host

\* C18: with the sni method and a ClientHello body holding an SNI extension
\* at a valid offset with a name of n >= 1 bytes, exactly four fragments are
\* produced: the bytes before the name, its first ceil(n/2) bytes, its last
\* floor(n/2) bytes, and the bytes after it, in that order.
SniSplitsInFour ==
  frag_out # None /\ frag_out[1].method = "sni" =>
    LET data == frag_in.data
        pos == extract_sni_position(data)
        n == pos[2] - pos[1]
        half == (n + 1) \div 2
        parts == frag_out[1].parts
    IN n >= 1 /\ pos[2] <= Len(data)
       => /\ Len(parts) = 4
          /\ Payload(parts[1]) = SubSeq(data, 1, pos[1])
          /\ Payload(parts[2]) = SubSeq(data, pos[1] + 1, pos[1] + half)
          /\ Payload(parts[3]) = SubSeq(data, pos[1] + half + 1, pos[2])
          /\ Len(Payload(parts[3])) = n \div 2
          /\ Payload(parts[4]) = SubSeq(data, pos[2] + 1, Len(data))

\* a three-byte name after a ten-byte prefix, followed by one more byte
SniSplitsInFourWitness ==
  /\ frag_out # None /\ frag_out[1].method = "sni"
  /\ Len(frag_out[1].parts) = 4
  /\ Len(Payload(frag_out[1].parts[1])) = 10
  /\ Len(Payload(frag_out[1].parts[2])) = 2
  /\ Len(Payload(frag_out[1].parts[3])) = 1
  /\ Len(Payload(frag_out[1].parts[4])) = 1

\* C19: with the sni method a candidate whose server-name length is 0 is no
\* match: no four-record SNI split is made from it, and without another
\* valid candidate the fragmenter falls back to split.
EmptyNameIsNoMatch ==
  frag_out # None /\ frag_out[1].method = "sni" /\ Len(frag_out[1].parts) = 4 =>
    LET pre == Payload(frag_out[1].parts[1])
    IN pre[Len(pre) - 1] * 256 + pre[Len(pre)] # 0

\* C20: every fragment, for every method, is the bytes 16 03 04, a 2-byte
\* big-endian length and exactly that many payload bytes.
RecordsWellFormed ==
  frag_out # None =>
    \A i \in 1..Len(frag_out[1].parts) :
      LET r == frag_out[1].parts[i]
      IN /\ Len(r) >= 5
         /\ r[1] = 22 /\ r[2] = 3 /\ r[3] = 4
         /\ r[4] * 256 + r[5] = Len(r) - 5

\* 65 bytes were split into records of 32, 32 and 1 bytes
RecordsWellFormedWitness ==
  /\ frag_out # None /\ frag_out[1].method = "split"
  /\ Len(frag_out[1].parts) = 3
  /\ Len(frag_out[1].parts[1]) = 5 + ChunkSize
  /\ Len(frag_out[1].parts[3]) = 5 + 1

\* C21: when the first client read times out or returns end of stream the
\* client socket is closed and nothing else changes: no registry entry, no
\* counter, no domain_failures entry, no byte to the client, no access or
\* error record.
EarlyCloseChangesNothingElse ==
  [][\A c \in Conns :
       pc[c] = "read_first" /\ pc'[c] = "done" /\ loc'[c].outcome = "early" =>
         /\ io'[c].cw_closed
         /\ io'[c] = [io[c] EXCEPT !.cw_closed = TRUE]
         /\ io'[c].client_rx = <<>>
         /\ stats' = stats /\ tally' = tally
         /\ active_connections' = active_connections
         /\ domain_failures' = domain_failures
         /\ logs' = logs /\ logs'[c] = InitLogs
         /\ pipes' = pipes]_vars

\* a connection ended at its first read, closed and uncounted
EarlyCloseChangesNothingElseWitness ==
  \E c \in Conns :
    /\ pc[c] = "done" /\ loc[c].outcome = "early"
    /\ io[c].cw_closed /\ io[c].client_rx = <<>>
    /\ stats = ZeroStats /\ logs[c] = InitLogs

\* C22: a list the client created is in the answer to GET /api/lists, and a
\* list the client last toggled to enabled=false is reported there with
\* enabled=false, whatever other lists exist or are selected.
ToggledOffStaysOff ==
  gui_resp.kind = "lists" =>
    \A n \in ListNameSet :
      gui_asked[n] # "none" =>
        \E i \in 1..Len(gui_resp.lists) :
          /\ gui_resp.lists[i].name = n
          /\ gui_asked[n] = "off" => ~gui_resp.lists[i].enabled

\* C23: start-up is all-or-nothing.  With the file blacklist and a missing
\* blacklist file, or with a port that cannot be bound, the process ends with
\* a non-zero status and no connection was accepted; otherwise it never exits
\* during start-up and connections are accepted only while it is listening.
StartupAllOrNothing ==
  LET doomed == \/ cfg.bl_mode = "file" /\ ~boot_env.blacklist_exists
                \/ ~boot_env.port_free
  IN /\ doomed => /\ boot_pc # "serving"
                  /\ accepted = 0 /\ \A c \in Conns : pc[c] = "idle"
                  /\ boot_pc = "exited" => exit_status # None /\ exit_status[1] # 0
     /\ ~doomed => boot_pc # "exited" /\ exit_status = None
     /\ accepted > 0 => boot_pc = "serving"
     /\ boot_pc = "serving" /\ accepted < MaxAccepts /\ pc[1] \in {"idle", "done"}
          => ENABLED Accept(1, MaxAccepts)

\* the process ended with status 1 for a missing blacklist file although the
\* port was free
StartupAllOrNothingWitness ==
  /\ cfg.bl_mode = "file" /\ ~boot_env.blacklist_exists /\ boot_env.port_free
  /\ boot_pc = "exited" /\ exit_status = <<1>> /\ accepted = 0

\* C24: the stats snapshot is written atomically: whatever the control UI
\* reads from the stats file is a complete JSON object, never an empty or
\* truncated file.
ReaderSeesCompleteSnapshot ==
  sf_read # None => IsJson(sf_read[1])

\* C25: for a CONNECT to a domain that is to be fragmented the origin never
\* receives the client's ClientHello record as the client sent it (its own
\* record header followed by the whole body), on no path.
HelloNeverVerbatim ==
  \A c \in Conns :
    loc[c].req.kind = "CONNECT" /\ ShouldFragment(loc[c].req.host) =>
      \A hello \in Hellos :
        ~Contains(io[c].origin_rx, TlsHeader(hello) \o hello)

\* C26: for a CONNECT the 200 response is written only after the origin
\* connection was opened and before any TLS payload is read from the client;
\* when opening the origin connection fails the client is sent the 500
\* response and never the 200 response.
EstablishedOnlyAfterConnect ==
  \A c \in Conns :
    loc[c].req.kind = "CONNECT" =>
      /\ Contains(io[c].client_rx, Established) => loc[c].remote
      /\ io[c].client_tx # loc[c].http_data =>
           StartsWith(io[c].client_rx, Established)
      /\ pc[c] = "tls_head" => io[c].client_rx = Established
      /\ (/\ ~loc[c].remote
          /\ \/ pc[c] \in {"err_drain", "err_wait_closed"}
             \/ pc[c] = "done" /\ loc[c].outcome = "error") =>
           io[c].client_rx = ErrorResponse

\* a CONNECT whose origin refused ended with the 500 response alone
EstablishedOnlyAfterConnectWitness ==
  \E c \in Conns :
    /\ loc[c].req.kind = "CONNECT" /\ ~loc[c].remote
    /\ pc[c] = "done" /\ loc[c].outcome = "error"
    /\ io[c].client_rx = ErrorResponse

\* C27: the cleanup of a relay starts only after both pipes have ended.  While
\* the relay runs neither endpoint is closed and the ConnectionInfo stays
\* registered; then the client writer is closed, then the remote writer, then
\* the ConnectionInfo is removed, its domain_failures entry decremented once
\* and one access record emitted.
RelayCleanupOrdered ==
  /\ [](\A c \in Conns :
          LET registered == loc[c].key \in DOMAIN active_connections
          IN /\ pc[c] = "relay" =>
                  /\ ~io[c].cw_closed /\ ~io[c].rw_closed
                  /\ registered /\ logs[c].access = <<>>
             /\ pc[c] = "close_client" =>
                  /\ PipesDone(c)
                  /\ io[c].cw_closed /\ ~io[c].rw_closed
                  /\ registered /\ logs[c].access = <<>>
             /\ pc[c] = "close_remote" =>
                  /\ PipesDone(c)
                  /\ io[c].cw_closed /\ io[c].rw_closed
                  /\ registered /\ logs[c].access = <<>>
             /\ pc[c] = "done" /\ loc[c].outcome = "normal" =>
                  /\ io[c].cw_closed /\ io[c].rw_closed
                  /\ ~registered /\ Len(logs[c].access) = 1)
  /\ [][\A c \in Conns :
          pc[c] = "close_remote" /\ pc'[c] = "done" =>
            LET d == active_connections[loc[c].key].dst_domain
            IN /\ DOMAIN domain_failures' = DOMAIN domain_failures
               /\ \A e \in DOMAIN domain_failures :
                    domain_failures'[e] =
                      IF e = d THEN Max(0, domain_failures[e] - 1)
                      ELSE domain_failures[e]]_vars

\* a relay was cleaned up after an earlier connection to the same domain had
\* failed: the failure count is back at 0 and the access record is out
RelayCleanupOrderedWitness ==
  \E c \in Conns :
    /\ pc[c] = "done" /\ loc[c].outcome = "normal"
    /\ io[c].cw_closed /\ io[c].rw_closed
    /\ Len(logs[c].access) = 1
    /\ loc[c].req.host \in DOMAIN domain_failures
    /\ domain_failures[loc[c].req.host] = 0

\* C28: when the first TLS payload has been read, head is exactly the first 5
\* bytes the client sent after the 200 response (or all it sent, if fewer) and
\* data is the bytes that follow them, however the client's bytes were split
\* across reads; the fragmenter is never given record-header bytes as data.
HeadIsRecordHeader ==
  \A c \in Conns :
    pc[c] \in {"tls_drain", "jit_drain"} =>
      LET sent == PyFrom(io[c].client_tx, Len(loc[c].http_data)) \o io[c].cstream
      IN /\ loc[c].head = PySlice(sent, 0, TlsHeadMax)
         /\ loc[c].data = PySlice(sent, TlsHeadMax, TlsHeadMax + Len(loc[c].data))

\* C29: on the error path the 500 response is best effort: whether or not its
\* write and drain succeed, total and error are incremented, the registry
\* entry is removed, the error is logged with the domain (or "unknown"), the
\* client writer is closed, and the path ends without raising.
ErrorPathAlwaysCompletes ==
  /\ [][\A c \in Conns :
          pc[c] = "err_drain" /\ pc'[c] # "err_drain" /\ ~cancelled[c] =>
            LET key == loc[c].key
                domain == IF key \in DOMAIN active_connections
                          THEN active_connections[key].dst_domain ELSE Unknown
            IN /\ pc'[c] = "err_wait_closed"
               /\ stats'.total = stats.total + 1
               /\ stats'.errors >= stats.errors + 1
               /\ stats'.traffic_in \in {stats.traffic_in,
                                         stats.traffic_in + ErrorResponseLen}
               /\ key \notin DOMAIN active_connections'
               /\ logs'[c].errors = Append(logs[c].errors, domain)
               /\ io'[c].cw_closed]_vars
  /\ [](\A c \in Conns :
          pc[c] = "done" /\ loc[c].outcome = "error" =>
            /\ tally[c].total >= 1 /\ tally[c].errors >= 1
            /\ loc[c].key \notin DOMAIN active_connections
            /\ logs[c].errors # <<>>
            /\ io[c].cw_closed)

\* an unparsable request whose 500 response could not be drained: counted,
\* logged as "unknown" and closed all the same
ErrorPathAlwaysCompletesWitness ==
  \E c \in Conns :
    /\ pc[c] = "done" /\ loc[c].outcome = "error"
    /\ io[c].client_rx = ErrorResponse
    /\ tally[c].traffic_in = 0
    /\ tally[c].total = 1 /\ tally[c].errors >= 1
    /\ logs[c].errors = <<Unknown>>
    /\ io[c].cw_closed

\* C30: a socket error inside a relay pipe ends that pipe, is logged and leads
\* to both sides being closed; a connection whose only errors were such pipe
\* errors and which went through the normal cleanup leaves the error counter
\* unchanged.
PipeErrorNotCounted ==
  \A c \in Conns :
    (/\ pc[c] = "done" /\ loc[c].outcome = "normal"
     /\ logs[c].errors # <<>>
     /\ \A i \in 1..Len(logs[c].errors) : logs[c].errors[i] = Unknown)
    => /\ io[c].cw_closed /\ io[c].rw_closed
       /\ Len(logs[c].access) = 1
       /\ tally[c].errors = 0

RuleMethodRandomOrSni ==
  \A c \in Conns :
    loc[c].decision = "blocked" =>
      LET rd == RuleDecide(cfg.rules, loc[c].req.host)
      IN /\ rd.method = None \/ rd.method[1] \in {"random", "sni"}
         /\ loc[c].method0 \in {"random", "sni", cfg.fragment_method}

\* C33: whenever the sni method cuts at a located SNI, the range is
\* [p+9, p+9+name_length) with p+9+name_length <= len(data): the two SNI
\* records together carry exactly name_length bytes.
SniWindowFits ==
  frag_out # None /\ frag_out[1].method = "sni" /\ Len(frag_out[1].parts) = 4 =>
    LET pre == Payload(frag_out[1].parts[1])
        name_length == pre[Len(pre) - 1] * 256 + pre[Len(pre)]
    IN /\ Len(pre) + name_length <= Len(frag_in.data)
       /\ Len(Payload(frag_out[1].parts[2])) + Len(Payload(frag_out[1].parts[3]))
            = name_length

\* C34: with split or split-jitter the records carry consecutive 32-byte
\* slices of data, only the last possibly shorter and none empty,
\* ceil(len(data)/32) records in all; split-jitter writes them one at a time
\* in that order, every other method writes the concatenated records once.
SplitInChunks ==
  frag_out # None =>
    LET parts == frag_out[1].parts
        data == frag_in.data
        n == (Len(data) + ChunkSize - 1) \div ChunkSize
    IN /\ frag_out[1].method \in {"split", "split-jitter"} =>
            /\ Len(parts) = n
            /\ \A i \in 1..Len(parts) :
                 /\ Payload(parts[i]) = PySlice(data, ChunkSize * (i - 1), ChunkSize * i)
                 /\ Payload(parts[i]) # <<>>
                 /\ i < Len(parts) => Len(Payload(parts[i])) = ChunkSize
       /\ parts # <<>> =>
            frag_out[1].writes =
              IF frag_out[1].method = "split-jitter" THEN parts ELSE <<Join(parts)>>

\* 65 bytes under split-jitter: three writes of 32, 32 and 1 payload bytes
SplitInChunksWitness ==
  /\ frag_out # None /\ frag_out[1].method = "split-jitter"
  /\ Len(frag_in.data) = 2 * ChunkSize + 1
  /\ Len(frag_out[1].writes) = 3
  /\ Len(frag_out[1].writes[1]) = HdrLen + ChunkSize
  /\ Len(frag_out[1].writes[3]) = HdrLen + 1

\* C35: with the random method the fragment loop ends for every data and
\* every sequence of draws: every record has a non-empty payload, there are
\* at most len(data) records, the payloads make up data, and when data holds
\* a zero byte the first record is data up to and including the first one.
RandomLoopTerminates ==
  frag_out # None /\ frag_out[1].method \notin {"sni", "split", "split-jitter"} =>
    LET parts == frag_out[1].parts
        data == frag_in.data
        pos0 == Find0(data, 0)
    IN /\ Len(parts) <= Len(data)
       /\ \A i \in 1..Len(parts) : Payload(parts[i]) # <<>>
       /\ Payloads(parts) = data
       /\ pos0 # -1 => Payload(parts[1]) = PySlice(data, 0, pos0 + 1)

\* three bytes without a zero byte, cut into three one-byte records
RandomLoopTerminatesWitness ==
  /\ frag_out # None /\ frag_out[1].method = "random"
  /\ Len(frag_in.data) = 3 /\ Find0(frag_in.data, 0) = -1
  /\ Len(frag_out[1].parts) = 3

\* C36: domain_failures[d] changes in two ways only: the error response of a
\* registered connection to d adds exactly 1, and the completed relay of a
\* connection to d subtracts exactly 1 with a floor of 0; so error responses
\* with no completed relay in between add up.
FailuresChangeByOne ==
  [][\A d \in Domains :
       LET old == Get(domain_failures, d, 0)
           new == Get(domain_failures', d, 0)
           To(c) == /\ loc[c].key \in DOMAIN active_connections
                    /\ active_connections[loc[c].key].dst_domain = d
           Errs(c) == pc[c] = "err_drain" /\ pc'[c] = "err_wait_closed" /\ To(c)
           Ends(c) == pc[c] = "close_remote" /\ pc'[c] = "done" /\ To(c)
       IN /\ new # old => \E c \in Conns : Errs(c) \/ Ends(c)
          /\ \A c \in Conns : Errs(c) => new = old + 1
          /\ \A c \in Conns : Ends(c) => new = Max(0, old - 1)]_vars

\* two error responses for a.t with no completed relay in between
FailuresChangeByOneWitness ==
  /\ DomA \in DOMAIN domain_failures /\ domain_failures[DomA] = 2
  /\ \A c \in Conns : loc[c].outcome # "normal"

\* C37: once shutdown has returned the listener is closed, none of the
\* periodic tasks created by run (stats display, stats file writer, task-list
\* cleanup) is still scheduled, and every connection task has ended or has
\* been cancelled.
ShutdownStopsEverything ==
  sd_pc = "returned" =>
    /\ ~Listening
    /\ \A t \in TaskNames : periodic[t] # "scheduled"
    /\ \A c \in Conns : Live(c) => cancelled[c]

\* C38: the blocked set and the whitelist set of the adaptive oracle never
\* share a domain, also when concurrent checks of one domain end with
\* different probe outcomes.
BlockedWhitelistDisjoint ==
  bl_blocked \cap bl_white = {}

\* C39: the adaptive oracle appends a domain to its backing file at most once,
\* whatever the number of connections and the interleaving of their checks.
AppendedAtMostOnce ==
  \A d \in Domains :
    Cardinality({i \in 1..Len(bl_file) : bl_file[i] = d}) <= 1

\* C40: a connection that has opened its origin connection and has ended, by
\* the relay's cleanup or by the error handler after a failed write or drain,
\* has closed the origin-side endpoint as well as the client-side one.
OriginAlwaysClosed ==
  \A c \in Conns :
    (pc[c] = "done" /\ loc[c].outcome \in {"normal", "error"} /\ loc[c].remote)
    => io[c].rw_closed /\ io[c].cw_closed

====
